---- MODULE Spec2Model ----
(***************************************************************************)
(* State-machine model of the session and dispatch runtime of the          *)
(* nutrition-coach agent:                                                  *)
(*   - the scheduled-task store and its wake-up alarm (ReminderWorkflow),  *)
(*   - the server-side connection bookkeeping and handler dispatch         *)
(*     (NutritionAgent, ConnectionHandler, CommandHandler,                 *)
(*     ChatMessageHandler),                                                *)
(*   - the client-side reconnecting socket hook (useWebSocket),            *)
(*   - a conversational turn split at its await of the text-generation     *)
(*     collaborator, and the bounded histories of NutritionContext and     *)
(*     UserProfile as plain objects.                                       *)
(* Each subsystem has its own next-state relation and specification; the   *)
(* variables of the other subsystems stay unchanged under it.              *)
(***************************************************************************)
EXTENDS Integers, Sequences, FiniteSets, TLC

VARIABLES
  \* ---- ReminderWorkflow / Durable Object storage --------------------------
  scheduledReminders,   \* in-memory Map workflowId -> WorkflowStatus
  persistedReminders,   \* storage key "scheduled_reminders"
  workflowStore,        \* storage keys "workflow:<id>"
  alarm,                \* the Durable Object's alarm slot
  now,                  \* Date.now()
  taskResult,           \* outcome of the last store operation
  taskCall,             \* history: the last store operation, its id and the bodies that returned
  sweptCancelled,       \* history: ids a sweep executed while their status was cancelled
  \* ---- NutritionAgent / ConnectionHandler / IdentityStateStore ------------
  wsToUserId,           \* NutritionAgent.wsToUserId: transport -> identity
  activeConnections,    \* ConnectionHandler.activeConnections: identity -> transport
  wsState,              \* the runtime's view of each accepted transport
  contextStore,         \* storage: conversation context per identity
  profileStore,         \* storage: user profile per identity
  turn,                 \* number of inbound messages dispatched so far
  lastEvent,            \* the notification handled last
  calls,                \* handler methods called for the last notification, in order
  outbound,             \* frames sent while handling the last notification, in order
  llmGiven,             \* history: context messages handed to the collaborator last
  \* ---- useWebSocket (one hook instance) -----------------------------------
  readyState,           \* readyState of every WebSocket the hook has created
  wsRef,                \* wsRef.current
  isConnectingRef,      \* isConnectingRef.current
  shouldReconnectRef,   \* shouldReconnectRef.current
  reconnectAttemptsRef, \* reconnectAttemptsRef.current
  reconnectTimeoutRef,  \* reconnectTimeoutRef.current
  timers,               \* every timer the hook has armed: its state and delay
  isConnected,          \* React state isConnected
  mounted,              \* the effect is set up and not yet cleaned up
  setups,               \* number of effect set-ups so far
  closeRun,             \* history: close events handled while set up since the last open
  tornDown,             \* history: sockets a cleanup has closed
  \* ---- conversational turns suspended at the collaborator call ------------
  inflight,             \* per turn: its progress and the context object it holds
  \* ---- NutritionContext / UserProfile as plain objects ---------------------
  conversationHistory,  \* NutritionContext.conversationHistory
  appendedMessages,     \* history: number of addMessage calls so far
  mealHistory,          \* UserProfile.mealHistory
  appendedMeals,        \* history: number of addMeal calls so far
  \* ---- useWebSocket: frames through the hook --------------------------------
  lastSend,             \* history: the last sendMessage call, what it sent and returned
  received,             \* history: event.data of the message events so far, in order
  delivered,            \* history: the Messages given to onMessage so far, in order
  \* ---- CommandHandler on one message content ---------------------------------
  matcherText,          \* message.content
  matcherResult,        \* what canHandle, parseCommand and the dispatch made of it
  \* ---- restart of the Durable Object ------------------------------------------
  reload,               \* loadScheduledReminders started by the constructor
  acceptedAs            \* history: the userId each transport was accepted with

taskVars == <<scheduledReminders, persistedReminders, workflowStore, alarm, now,
              taskResult, taskCall, sweptCancelled>>

serverVars == <<wsToUserId, activeConnections, wsState, contextStore, profileStore,
                turn, lastEvent, calls, outbound, llmGiven>>

clientVars == <<readyState, wsRef, isConnectingRef, shouldReconnectRef,
                reconnectAttemptsRef, reconnectTimeoutRef, timers, isConnected,
                mounted, setups, closeRun, tornDown>>

turnVars == <<inflight>>

appendVars == <<conversationHistory, appendedMessages, mealHistory, appendedMeals>>

ioVars == <<lastSend, received, delivered>>

matcherVars == <<matcherText, matcherResult>>

restartVars == <<reload, acceptedAs>>

vars == <<taskVars, serverVars, clientVars, turnVars, appendVars, ioVars, matcherVars,
          restartVars>>

(***************************************************************************)
(* Bounds                                                                  *)
(***************************************************************************)
MaxTasks == 2
MaxTime == 1
MaxTransports == 2
MaxTurns == 2
MaxChunks == 2
MaxSockets == 6
MaxTimers == 5
MaxSetups == 2
MaxAppends == 100
MaxFrames == 2

TaskIds == 1..MaxTasks
Times == 0..MaxTime

(***************************************************************************)
(* ScheduledTaskStore: ReminderWorkflow                                    *)
(***************************************************************************)
NoAlarm == -1

WorkflowNames == <<"meal-reminder", "daily-summary", "goal-check-in", "unknown-workflow">>

\* The workflow name a caller schedules under a given workflow id.
NameOf(id) == WorkflowNames[((id - 1) % 4) + 1]

\* A field that is undefined (completedAt of a task that has not ended).
NoTime == -1

NoStatus == [state |-> "none", startedAt |-> 0, completedAt |-> NoTime, error |-> ""]

\* History of the last store operation: the method, its workflow id, the ids
\* whose body returned, and (for a sweep) the ids that were pending and due
\* when it began.
TaskCall(op, id, returned, duePending) ==
  [op |-> op, id |-> id, returned |-> returned, duePending |-> duePending]
NoEntry == [workflowName |-> "", scheduledTime |-> -1]

\* executeWorkflow: the outcomes (TRUE = returns, FALSE = throws) of a body.
\* meal-reminder writes to storage and reads context.data, so it may throw;
\* the two other known bodies only log; any other name throws.
BodyOutcomes(workflowName) ==
  CASE workflowName = "meal-reminder" -> {TRUE, FALSE}
    [] workflowName = "daily-summary" -> {TRUE}
    [] workflowName = "goal-check-in" -> {TRUE}
    [] OTHER -> {FALSE}

\* getErrorMessage(error) of the error a body throws.
BodyError(workflowName) ==
  IF workflowName \in {"meal-reminder", "daily-summary", "goal-check-in"}
  THEN "body-failed"
  ELSE "unknown-workflow"

\* storage.setAlarm(t): the object has one alarm slot; setting replaces it.
SetAlarm(current, timestamp) == timestamp

InitTasks ==
  /\ scheduledReminders = [id \in TaskIds |-> NoStatus]
  /\ persistedReminders = [id \in TaskIds |-> NoStatus]
  /\ workflowStore = [id \in TaskIds |-> NoEntry]
  /\ alarm = NoAlarm
  /\ now = 0
  /\ taskResult = "none"
  /\ taskCall = TaskCall("none", 0, {}, {})
  /\ sweptCancelled = {}

\* scheduleWorkflow(workflowName, {workflowId}, scheduledTime)
ScheduleWorkflow(id, timestamp) ==
  LET status == [state |-> "pending", startedAt |-> timestamp,
                 completedAt |-> NoTime, error |-> ""]
      reminders == [scheduledReminders EXCEPT ![id] = status]
  IN /\ workflowStore' = [workflowStore EXCEPT
                            ![id] = [workflowName |-> NameOf(id),
                                     scheduledTime |-> timestamp]]
     /\ scheduledReminders' = reminders
     /\ persistedReminders' = reminders
     /\ alarm' = SetAlarm(alarm, timestamp)
     /\ taskResult' = "ok"
     /\ taskCall' = TaskCall("schedule", id, {}, {})
     /\ UNCHANGED <<now, sweptCancelled>>

\* The states cancelWorkflow refuses to cancel.
CancelRefused == {"completed", "failed"}

\* startWorkflow(workflowName, {workflowId}); ok is the outcome of the body.
\* When the body throws the error is rethrown and the status stays running.
StartWorkflow(id, ok) ==
  LET status == [state |-> "running", startedAt |-> now,
                 completedAt |-> NoTime, error |-> ""]
      final == IF ok THEN [status EXCEPT !.state = "completed", !.completedAt = now]
               ELSE status
      reminders == [scheduledReminders EXCEPT ![id] = final]
  IN /\ ok \in BodyOutcomes(NameOf(id))
     /\ scheduledReminders' = reminders
     /\ persistedReminders' = reminders
     /\ taskResult' = IF ok THEN "ok" ELSE "start-failed"
     /\ taskCall' = TaskCall("start", id, IF ok THEN {id} ELSE {}, {})
     /\ UNCHANGED <<workflowStore, alarm, now, sweptCancelled>>

\* cancelWorkflow(workflowId)
CancelWorkflow(id) ==
  LET status == scheduledReminders[id]
      reminders == [scheduledReminders EXCEPT
                      ![id] = [status EXCEPT !.state = "cancelled", !.completedAt = now]]
  IN /\ taskCall' = TaskCall("cancel", id, {}, {})
     /\ UNCHANGED <<workflowStore, alarm, now, sweptCancelled>>
     /\ IF status.state = "none"
          THEN /\ taskResult' = "not-found"
               /\ UNCHANGED <<scheduledReminders, persistedReminders>>
          ELSE IF status.state \in CancelRefused
          THEN /\ taskResult' = "state-error"
               /\ UNCHANGED <<scheduledReminders, persistedReminders>>
          ELSE /\ scheduledReminders' = reminders
               /\ persistedReminders' = reminders
               /\ taskResult' = "ok"

\* retryWorkflow without the check that the workflow is in failed.
RetryWorkflow_NoStateCheck(id, ok) ==
  LET status == scheduledReminders[id]
      workflowData == workflowStore[id]
      executes == status.state # "none" /\ workflowData # NoEntry
      final == IF ok
               THEN [status EXCEPT !.state = "completed", !.error = "",
                                   !.completedAt = now]
               ELSE [status EXCEPT !.state = "failed",
                                   !.error = BodyError(workflowData.workflowName)]
      reminders == [scheduledReminders EXCEPT ![id] = final]
  IN /\ taskCall' = TaskCall("retry", id, IF executes /\ ok THEN {id} ELSE {}, {})
     /\ UNCHANGED <<workflowStore, alarm, now, sweptCancelled>>
     /\ IF status.state = "none"
          THEN /\ taskResult' = "not-found"
               /\ UNCHANGED <<scheduledReminders, persistedReminders>>
          ELSE IF workflowData = NoEntry
          THEN /\ taskResult' = "data-not-found"
               /\ UNCHANGED <<scheduledReminders, persistedReminders>>
          ELSE /\ ok \in BodyOutcomes(workflowData.workflowName)
               /\ scheduledReminders' = reminders
               /\ persistedReminders' = reminders
               /\ taskResult' = "ok"

\* retryWorkflow(workflowId); ok is the outcome of the re-executed body.
RetryWorkflow(id, ok) ==
  LET status == scheduledReminders[id]
      workflowData == workflowStore[id]
      executes == status.state = "failed" /\ workflowData # NoEntry
      final == IF ok
               THEN [status EXCEPT !.state = "completed", !.error = "",
                                   !.completedAt = now]
               ELSE [status EXCEPT !.state = "failed",
                                   !.error = BodyError(workflowData.workflowName)]
      reminders == [scheduledReminders EXCEPT ![id] = final]
  IN /\ taskCall' = TaskCall("retry", id, IF executes /\ ok THEN {id} ELSE {}, {})
     /\ UNCHANGED <<workflowStore, alarm, now, sweptCancelled>>
     /\ IF status.state = "none"
          THEN /\ taskResult' = "not-found"
               /\ UNCHANGED <<scheduledReminders, persistedReminders>>
          ELSE IF status.state # "failed"
          THEN /\ taskResult' = "state-error"
               /\ UNCHANGED <<scheduledReminders, persistedReminders>>
          ELSE IF workflowData = NoEntry
          THEN /\ taskResult' = "data-not-found"
               /\ UNCHANGED <<scheduledReminders, persistedReminders>>
          ELSE /\ ok \in BodyOutcomes(workflowData.workflowName)
               /\ scheduledReminders' = reminders
               /\ persistedReminders' = reminders
               /\ taskResult' = "ok"

\* The raw entries handleAlarm executes: those with scheduledTime <= Date.now().
DueEntries(store, t) ==
  {id \in TaskIds : store[id] # NoEntry /\ store[id].scheduledTime <= t}

\* handleAlarm with one try/catch around the whole loop: the first body that
\* throws ends the sweep, and the entries after it are left as they were.
HandleAlarm_StopOnThrow(okSet) ==
  LET due == DueEntries(workflowStore, now)
      reached(id) == \A j \in due : j < id => j \in okSet
      swept(id) ==
        LET status == scheduledReminders[id]
        IN IF id \notin due \/ status.state = "none" \/ ~reached(id) THEN status
           ELSE IF id \in okSet
           THEN [status EXCEPT !.state = "completed", !.completedAt = now]
           ELSE [status EXCEPT !.state = "failed",
                               !.error = BodyError(workflowStore[id].workflowName)]
      reminders == [id \in TaskIds |-> swept(id)]
  IN /\ okSet \subseteq due
     /\ \A id \in due : (id \in okSet) \in BodyOutcomes(workflowStore[id].workflowName)
     /\ scheduledReminders' = reminders
     /\ persistedReminders' = reminders
     /\ workflowStore' = [id \in TaskIds |->
                            IF id \in okSet /\ reached(id) THEN NoEntry ELSE workflowStore[id]]
     /\ sweptCancelled' = sweptCancelled \cup
                            {id \in due : scheduledReminders[id].state = "cancelled"}
     /\ taskCall' = TaskCall("sweep", 0, okSet,
                              {id \in due : scheduledReminders[id].state = "pending"})
     /\ UNCHANGED <<now, taskResult>>

\* handleAlarm(); okSet holds the due ids whose body returns.
HandleAlarm(okSet) ==
  LET due == DueEntries(workflowStore, now)
      swept(id) ==
        LET status == scheduledReminders[id]
        IN IF id \notin due \/ status.state = "none" THEN status
           ELSE IF id \in okSet
           THEN [status EXCEPT !.state = "completed", !.completedAt = now]
           ELSE [status EXCEPT !.state = "failed",
                               !.error = BodyError(workflowStore[id].workflowName)]
      reminders == [id \in TaskIds |-> swept(id)]
  IN /\ okSet \subseteq due
     /\ \A id \in due : (id \in okSet) \in BodyOutcomes(workflowStore[id].workflowName)
     /\ scheduledReminders' = reminders
     /\ persistedReminders' = reminders
     /\ workflowStore' = [id \in TaskIds |->
                            IF id \in okSet THEN NoEntry ELSE workflowStore[id]]
     /\ sweptCancelled' = sweptCancelled \cup
                            {id \in due : scheduledReminders[id].state = "cancelled"}
     /\ taskCall' = TaskCall("sweep", 0, okSet,
                              {id \in due : scheduledReminders[id].state = "pending"})
     /\ UNCHANGED <<now, taskResult>>

\* NutritionAgent.alarm(): the host fires the armed alarm once its time has
\* come; the slot is empty while the handler runs.
Alarm ==
  /\ alarm # NoAlarm
  /\ alarm <= now
  /\ alarm' = NoAlarm
  /\ \E okSet \in SUBSET TaskIds : HandleAlarm(okSet)

\* Passage of time.
Tick ==
  /\ now < MaxTime
  /\ now' = now + 1
  /\ taskCall' = TaskCall("tick", 0, {}, {})
  /\ UNCHANGED <<scheduledReminders, persistedReminders, workflowStore, alarm,
                 taskResult, sweptCancelled>>

Schedule == \E id \in TaskIds, timestamp \in Times : ScheduleWorkflow(id, timestamp)
Start == \E id \in TaskIds, ok \in BOOLEAN : StartWorkflow(id, ok)
Cancel == \E id \in TaskIds : CancelWorkflow(id)
Retry == \E id \in TaskIds, ok \in BOOLEAN : RetryWorkflow(id, ok)

NextTasks ==
  \/ Schedule /\ UNCHANGED <<serverVars, clientVars, turnVars, appendVars, ioVars, matcherVars, restartVars>>
  \/ Start /\ UNCHANGED <<serverVars, clientVars, turnVars, appendVars, ioVars, matcherVars, restartVars>>
  \/ Cancel /\ UNCHANGED <<serverVars, clientVars, turnVars, appendVars, ioVars, matcherVars, restartVars>>
  \/ Retry /\ UNCHANGED <<serverVars, clientVars, turnVars, appendVars, ioVars, matcherVars, restartVars>>
  \/ Alarm /\ UNCHANGED <<serverVars, clientVars, turnVars, appendVars, ioVars, matcherVars, restartVars>>
  \/ Tick /\ UNCHANGED <<serverVars, clientVars, turnVars, appendVars, ioVars, matcherVars, restartVars>>

(***************************************************************************)
(* Text: message contents are sequences of characters                      *)
(***************************************************************************)
S_analyze == <<"a", "n", "a", "l", "y", "z", "e">>
S_analyze_meal == <<"a", "n", "a", "l", "y", "z", "e", "-", "m", "e", "a", "l">>
S_recommend == <<"r", "e", "c", "o", "m", "m", "e", "n", "d">>
S_suggestions == <<"s", "u", "g", "g", "e", "s", "t", "i", "o", "n", "s">>
S_suggest == <<"s", "u", "g", "g", "e", "s", "t">>
S_set_goals == <<"s", "e", "t", "-", "g", "o", "a", "l", "s">>
S_goals == <<"g", "o", "a", "l", "s">>
S_goal == <<"g", "o", "a", "l">>
S_history == <<"h", "i", "s", "t", "o", "r", "y">>
S_help == <<"h", "e", "l", "p">>
S_set == <<"s", "e", "t">>
S_my == <<"m", "y">>
S_show == <<"s", "h", "o", "w">>
S_meal == <<"m", "e", "a", "l">>
S_what == <<"w", "h", "a", "t">>
S_should == <<"s", "h", "o", "u", "l", "d">>
S_i == <<"i">>
S_eat == <<"e", "a", "t">>
S_calories_colon == <<"c", "a", "l", "o", "r", "i", "e", "s", ":">>
S_protein_colon == <<"p", "r", "o", "t", "e", "i", "n", ":">>
S_goal_colon == <<"g", "o", "a", "l", ":">>
S_weight_loss == <<"w", "e", "i", "g", "h", "t", "-", "l", "o", "s", "s">>
S_muscle_gain == <<"m", "u", "s", "c", "l", "e", "-", "g", "a", "i", "n">>
S_maintenance == <<"m", "a", "i", "n", "t", "e", "n", "a", "n", "c", "e">>
S_pizza == <<"p", "i", "z", "z", "a">>
S_slash == <<"/">>
S_space == <<" ">>

UpperChars == <<"A", "B", "C", "D", "E", "F", "G", "H", "I", "J", "K", "L", "M",
                "N", "O", "P", "Q", "R", "S", "T", "U", "V", "W", "X", "Y", "Z">>
LowerChars == <<"a", "b", "c", "d", "e", "f", "g", "h", "i", "j", "k", "l", "m",
                "n", "o", "p", "q", "r", "s", "t", "u", "v", "w", "x", "y", "z">>
Digits == {"0", "1", "2", "3", "4", "5", "6", "7", "8", "9"}

\* \s of a regular expression, and the characters String.trim removes.
IsSpace(c) == c \in {" ", "\t", "\n"}

\* String.toLowerCase
LowerChar(c) ==
  IF \E k \in 1..26 : UpperChars[k] = c
  THEN LowerChars[CHOOSE k \in 1..26 : UpperChars[k] = c]
  ELSE c
ToLowerCase(str) == [k \in 1..Len(str) |-> LowerChar(str[k])]

\* String.trim
Trim(str) ==
  LET keep == {k \in 1..Len(str) : ~IsSpace(str[k])}
  IN IF keep = {} THEN <<>>
     ELSE SubSeq(str, CHOOSE k \in keep : \A j \in keep : k <= j,
                      CHOOSE k \in keep : \A j \in keep : k >= j)

\* str has the literal lit at position i.
LitAt(str, i, lit) ==
  /\ i + Len(lit) - 1 <= Len(str)
  /\ \A k \in 1..Len(lit) : str[i + k - 1] = lit[k]

\* String.startsWith and String.includes
StartsWith(str, lit) == LitAt(str, 1, lit)
Includes(str, lit) == \E i \in 1..(Len(str) + 1) : LitAt(str, i, lit)

\* Regular expressions: a sequence of parts, each a literal, \s+, \s*, \d+,
\* an optional character or an alternation of literals.
Lit(lit) == [t |-> "lit", lits |-> {lit}]
Alt(lits) == [t |-> "lit", lits |-> lits]
Opt(c) == [t |-> "lit", lits |-> {<<>>, <<c>>}]
Ws1 == [t |-> "ws+", lits |-> {}]
Ws0 == [t |-> "ws*", lits |-> {}]
Digits1 == [t |-> "d+", lits |-> {}]

\* The positions right after a match of one part that starts at position i.
PartEnds(str, i, part) ==
  CASE part.t = "lit" -> {i + Len(lit) : lit \in {l \in part.lits : LitAt(str, i, l)}}
    [] part.t = "ws+" -> {j \in (i + 1)..(Len(str) + 1) : \A k \in i..(j - 1) : IsSpace(str[k])}
    [] part.t = "ws*" -> {j \in i..(Len(str) + 1) : \A k \in i..(j - 1) : IsSpace(str[k])}
    [] part.t = "d+" -> {j \in (i + 1)..(Len(str) + 1) : \A k \in i..(j - 1) : str[k] \in Digits}

\* The positions right after a match of all the parts that starts at position i.
RECURSIVE MatchEnds(_, _, _)
MatchEnds(str, i, parts) ==
  IF parts = <<>> THEN {i}
  ELSE UNION {MatchEnds(str, j, Tail(parts)) : j \in PartEnds(str, i, Head(parts))}

\* RegExp.test for /^parts/, /^parts$/ and /parts/.
TestAtStart(str, parts) == MatchEnds(str, 1, parts) # {}
TestWhole(str, parts) == (Len(str) + 1) \in MatchEnds(str, 1, parts)
TestAnywhere(str, parts) == \E i \in 1..(Len(str) + 1) : MatchEnds(str, i, parts) # {}

\* String.replace(/^parts/, ""): the greedy match at the start is removed.
ReplaceAtStart(str, parts) ==
  LET ends == MatchEnds(str, 1, parts)
  IN IF ends = {} THEN str
     ELSE SubSeq(str, CHOOSE e \in ends : \A f \in ends : e >= f, Len(str))

(***************************************************************************)
(* HandlerChain: CommandHandler and ChatMessageHandler                     *)
(***************************************************************************)
\* CommandHandler.canHandle: the natural-language patterns.
CommandPatternMatches(content) ==
  \/ TestAtStart(content, <<Lit(S_analyze), Ws1>>)
  \/ TestAtStart(content, <<Lit(S_set), Ws1, Lit(S_goal)>>)
  \/ TestWhole(content, <<Lit(S_my), Ws1, Lit(S_goal), Opt("s")>>)
  \/ TestAtStart(content, <<Lit(S_show), Ws1, Lit(S_history)>>)
  \/ TestAtStart(content, <<Lit(S_recommend)>>)
  \/ TestAtStart(content, <<Lit(S_suggest)>>)
  \/ TestWhole(content, <<Lit(S_help)>>)
  \/ TestAnywhere(content, <<Lit(S_what), Ws1, Lit(S_should), Ws1, Lit(S_i), Ws1, Lit(S_eat)>>)

\* CommandHandler.canHandle(message)
CommandCanHandle(text) ==
  LET content == ToLowerCase(Trim(text))
  IN StartsWith(content, S_slash) \/ CommandPatternMatches(content)

\* ChatMessageHandler.canHandle(message): every branch but the slash test
\* returns true.
ChatCanHandle(text) ==
  LET content == ToLowerCase(Trim(text))
  IN ~StartsWith(content, S_slash)

NoCommand == [type |-> "none", args |-> <<>>, flag |-> ""]

\* String.split(" "): the first part, and the other parts joined by " ".
FirstSpace(str) ==
  IF \E k \in 1..Len(str) : str[k] = " "
  THEN CHOOSE k \in 1..Len(str) : str[k] = " " /\ \A j \in 1..(k - 1) : str[j] # " "
  ELSE Len(str) + 1
FirstPart(str) == SubSeq(str, 1, FirstSpace(str) - 1)
RestParts(str) == SubSeq(str, FirstSpace(str) + 1, Len(str))

\* CommandHandler.parseSlashCommand(content)
ParseSlashCommand(content) ==
  LET commandName == SubSeq(FirstPart(content), 2, Len(FirstPart(content)))
      args == RestParts(content)
  IN CASE commandName \in {S_analyze_meal, S_analyze} ->
            [type |-> "analyze-meal", args |-> args, flag |-> ""]
       [] commandName \in {S_recommend, S_suggestions} ->
            [type |-> "get-recommendations", args |-> <<>>, flag |-> ""]
       [] commandName \in {S_set_goals, S_goals} ->
            [type |-> "set-goals", args |-> args, flag |-> ""]
       [] commandName = S_history ->
            [type |-> "get-history", args |-> <<>>, flag |-> ""]
       [] commandName = S_help ->
            [type |-> "get-recommendations", args |-> <<>>, flag |-> "showHelp"]
       [] OTHER -> NoCommand

\* CommandHandler.parseNaturalCommand(content)
ParseNaturalCommand(content) ==
  IF StartsWith(content, S_analyze)
  THEN [type |-> "analyze-meal",
        args |-> ReplaceAtStart(content, <<Lit(S_analyze), Ws1>>), flag |-> ""]
  ELSE IF \/ Includes(content, S_recommend)
          \/ Includes(content, S_suggest)
          \/ Includes(content, S_what \o S_space \o S_should \o S_space \o S_i \o S_space \o S_eat)
  THEN [type |-> "get-recommendations", args |-> <<>>, flag |-> ""]
  ELSE IF \/ Includes(content, S_my \o S_space \o S_goals)
          \/ Includes(content, S_show \o S_space \o S_goals)
  THEN [type |-> "get-history", args |-> <<>>, flag |-> "showGoals"]
  ELSE IF StartsWith(content, S_set \o S_space \o S_goal)
  THEN [type |-> "set-goals",
        args |-> ReplaceAtStart(content, <<Lit(S_set), Ws1, Lit(S_goal), Opt("s"), Ws0>>),
        flag |-> ""]
  ELSE IF \/ Includes(content, S_show \o S_space \o S_history)
          \/ Includes(content, S_meal \o S_space \o S_history)
  THEN [type |-> "get-history", args |-> <<>>, flag |-> ""]
  ELSE NoCommand

\* CommandHandler.parseCommand(content)
ParseCommand(text) ==
  LET trimmed == ToLowerCase(Trim(text))
  IN IF StartsWith(trimmed, S_slash)
     THEN ParseSlashCommand(trimmed)
     ELSE ParseNaturalCommand(trimmed)

\* handleSetGoals: the goal fields the arguments update.
GoalUpdates(args) ==
  {f \in {"dailyCalories", "dailyProtein", "fitnessGoal"} :
     \/ f = "dailyCalories" /\ Includes(args, S_calories_colon)
          /\ TestAnywhere(args, <<Lit(S_calories_colon), Digits1>>)
     \/ f = "dailyProtein" /\ Includes(args, S_protein_colon)
          /\ TestAnywhere(args, <<Lit(S_protein_colon), Digits1>>)
     \/ f = "fitnessGoal" /\ Includes(args, S_goal_colon)
          /\ TestAnywhere(args, <<Lit(S_goal_colon),
                                  Alt({S_weight_loss, S_muscle_gain, S_maintenance})>>)}


\* Message texts a client sends.
T_slashHelp == S_slash \o S_help
T_slashUnknown == S_slash \o S_pizza
T_analyze == S_analyze \o S_space \o S_pizza
T_chat == S_pizza
T_setGoals == S_set \o S_space \o S_goals \o S_space \o S_calories_colon \o <<"2">>
T_recommend == S_recommend

InboundTexts == {T_slashHelp, T_slashUnknown, T_analyze, T_chat, T_setGoals, T_recommend}

\* CommandHandler.canHandle, ChatMessageHandler.canHandle and
\* CommandHandler.parseCommand on the texts a client sends, evaluated once.
CommandCanHandleOf == [text \in InboundTexts |-> CommandCanHandle(text)]
ChatCanHandleOf == [text \in InboundTexts |-> ChatCanHandle(text)]
ParseCommandOf == [text \in InboundTexts |-> ParseCommand(text)]
GoalUpdatesOf ==
  [args \in {ParseCommandOf[text].args : text \in InboundTexts} |-> GoalUpdates(args)]
BlankArgs == {args \in DOMAIN GoalUpdatesOf : Trim(args) = <<>>}

(***************************************************************************)
(* IdentityStateStore: StateService, NutritionContext, UserProfile         *)
(***************************************************************************)
Identities == {"u1", "u2"}
UnknownUser == "unknown"
UserKeys == Identities \cup {UnknownUser}
Transports == 1..MaxTransports
NoWs == 0
NoUser == ""

MaxContextMessages == 20
MaxMealHistory == 30

NoContext == [exists |-> FALSE, messages |-> <<>>]
NoProfile == [exists |-> FALSE, goals |-> {}, meals |-> 0]

\* Array.slice(-n)
LastN(seq, n) == IF Len(seq) <= n THEN seq ELSE SubSeq(seq, Len(seq) - n + 1, Len(seq))

\* addMessage pruning from the wrong end: slice(0, 20) keeps the oldest.
AddMessage_KeepOldest(messages, message) ==
  IF Len(messages) + 1 > MaxContextMessages
  THEN SubSeq(Append(messages, message), 1, MaxContextMessages)
  ELSE Append(messages, message)

\* NutritionContext.addMessage(message)
AddMessage(messages, message) == LastN(Append(messages, message), MaxContextMessages)

\* UserProfile.addMeal(meal), on the length of the meal history
AddMeal(meals) == IF meals + 1 > MaxMealHistory THEN MaxMealHistory ELSE meals + 1

\* UserProfile.addMeal(meal), on the meal history itself
AddMealEntry(meals, meal) == LastN(Append(meals, meal), MaxMealHistory)

\* NutritionContext.getRecentMessages(count)
GetRecentMessages(messages, count) == LastN(messages, count)

\* The count ChatMessageHandler passes to getRecentMessages.
RecentCount == 10

\* A ChatMessage of the conversation history: its role, the turn that produced
\* it and its content (a sequence of strings).
ChatMessage(role, n, content) == [role |-> role, turn |-> n, content |-> content]

\* The content the collaborator produces for a non-streamed turn.
LlmResponse == <<"llm-response">>

\* StateService.getOrCreateContext(userId): the context as stored afterwards
GetOrCreateContext(context) == [context EXCEPT !.exists = TRUE]

\* StateService.getOrCreateUserProfile(userId): the profile as stored afterwards
GetOrCreateUserProfile(profile) == [profile EXCEPT !.exists = TRUE]

(***************************************************************************)
(* CommandHandler.handle and ChatMessageHandler.handle                     *)
(***************************************************************************)
Reply(content, detail) == [role |-> "assistant", content |-> content, detail |-> detail]

\* CommandHandler.executeCommand(command, userId); llmOk tells whether the
\* text-generation collaborator answers with usable output.  raised is the
\* message of the error thrown, "" when the call returns.
ExecuteCommand(command, profile, llmOk) ==
  LET created == GetOrCreateUserProfile(profile)
  IN CASE command.type = "analyze-meal" ->
            IF command.args \in BlankArgs
            THEN [content |-> "describe-meal", raised |-> "", profile |-> profile]
            ELSE IF llmOk
            THEN [content |-> "meal-analysis", raised |-> "",
                  profile |-> [created EXCEPT !.meals = AddMeal(created.meals)]]
            ELSE [content |-> "", raised |-> "Meal analysis failed", profile |-> created]
       [] command.type = "get-recommendations" ->
            IF created.goals = {}
            THEN [content |-> "default-recommendations", raised |-> "", profile |-> created]
            ELSE IF llmOk
            THEN [content |-> "recommendations", raised |-> "", profile |-> created]
            ELSE [content |-> "", raised |-> "Failed to generate recommendations",
                  profile |-> created]
       [] command.type = "set-goals" ->
            IF command.args = <<>>
            THEN [content |-> "current-goals", raised |-> "", profile |-> created]
            ELSE [content |-> "goals-updated", raised |-> "",
                  profile |-> [created EXCEPT !.goals = created.goals \cup GoalUpdatesOf[command.args]]]
       [] command.type = "get-history" ->
            IF command.flag = "showGoals"
            THEN [content |-> "your-goals", raised |-> "", profile |-> created]
            ELSE IF created.meals = 0
            THEN [content |-> "no-meal-history", raised |-> "", profile |-> created]
            ELSE [content |-> "recent-meals", raised |-> "", profile |-> created]
       [] OTHER -> [content |-> "unknown-command", raised |-> "", profile |-> profile]

\* A command apology that drops the error detail.
CommandApology_NoDetail(detail) == Reply("Sorry, I couldn't execute that command: ", "")

\* The message CommandHandler.handle returns when executeCommand throws.
CommandApology(detail) == Reply("Sorry, I couldn't execute that command: ", detail)

\* CommandHandler.handle(message, userId)
CommandHandle(text, context, profile, llmOk) ==
  LET command == ParseCommandOf[text]
      exec == ExecuteCommand(command, profile, llmOk)
  IN IF command = NoCommand
     THEN [response |-> Reply("I didn't understand that command.", ""), raised |-> "",
           context |-> context, profile |-> profile, given |-> <<>>]
     ELSE IF exec.raised = ""
     THEN [response |-> Reply(exec.content, ""), raised |-> "",
           context |-> context, profile |-> exec.profile, given |-> <<>>]
     ELSE [response |-> CommandApology(exec.raised), raised |-> exec.raised,
           context |-> context, profile |-> exec.profile, given |-> <<>>]

\* The message ChatMessageHandler.handle returns when anything in it throws.
ChatApology(detail) == Reply("Sorry, I encountered an error processing your message.", "")

\* ChatMessageHandler.handle with saveContext moved into a finally block: the
\* context is saved with the user message also when the collaborator fails.
ChatHandle_SaveOnFailure(text, context, profile, llmOk, n) ==
  LET nutritionContext == GetOrCreateContext(context)
      userProfile == GetOrCreateUserProfile(profile)
      withUser == AddMessage(nutritionContext.messages, ChatMessage("user", n, text))
      withReply == AddMessage(withUser, ChatMessage("assistant", n, LlmResponse))
  IN IF llmOk
     THEN [response |-> Reply("llm-response", ""), raised |-> "",
           context |-> [nutritionContext EXCEPT !.messages = withReply],
           profile |-> userProfile,
           given |-> GetRecentMessages(withUser, RecentCount)]
     ELSE [response |-> ChatApology("Failed to generate response"),
           raised |-> "Failed to generate response",
           context |-> [nutritionContext EXCEPT !.messages = withUser],
           profile |-> userProfile,
           given |-> GetRecentMessages(withUser, RecentCount)]

\* ChatMessageHandler.handle(message, userId); n numbers the turn.
ChatHandle(text, context, profile, llmOk, n) ==
  LET nutritionContext == GetOrCreateContext(context)
      userProfile == GetOrCreateUserProfile(profile)
      withUser == AddMessage(nutritionContext.messages, ChatMessage("user", n, text))
      withReply == AddMessage(withUser, ChatMessage("assistant", n, LlmResponse))
  IN IF llmOk
     THEN [response |-> Reply("llm-response", ""), raised |-> "",
           context |-> [nutritionContext EXCEPT !.messages = withReply],
           profile |-> userProfile,
           given |-> GetRecentMessages(withUser, RecentCount)]
     ELSE [response |-> ChatApology("Failed to generate response"),
           raised |-> "Failed to generate response",
           context |-> nutritionContext, profile |-> userProfile,
           given |-> GetRecentMessages(withUser, RecentCount)]

(***************************************************************************)
(* ConnectionHandler: parsing and dispatch                                 *)
(***************************************************************************)
\* NutritionAgent.setupMessageHandlers: the handlers in registration order.
Handlers == <<"command", "chat">>

CanHandle(handler, text) ==
  IF handler = "command" THEN CommandCanHandleOf[text] ELSE ChatCanHandleOf[text]

Handle(handler, text, context, profile, llmOk, n) ==
  IF handler = "command"
  THEN CommandHandle(text, context, profile, llmOk)
  ELSE ChatHandle(text, context, profile, llmOk, n)

\* "handleStream" in handler
HasHandleStream(handler) == handler = "chat"

NoMessage == [parsed |-> FALSE, content |-> <<>>]

\* ConnectionHandler.parseMessage(messageText).  A frame is an envelope (a
\* JSON object whose content field is the given text), some other JSON value
\* without a usable content field, or raw text that is not JSON (JSON.parse
\* throws and the catch branch takes the whole text as the content).
ParseMessage(frame) ==
  CASE frame.kind = "envelope" ->
         IF frame.content # <<>>
         THEN [parsed |-> TRUE, content |-> frame.content]
         ELSE NoMessage
    [] frame.kind = "json" -> NoMessage
    [] OTHER -> [parsed |-> TRUE, content |-> frame.content]

Call(handler, method) == [handler |-> handler, method |-> method]

Frame(ws, type, role, content, detail) ==
  [to |-> ws, type |-> type, role |-> role, content |-> content, detail |-> detail,
   text |-> <<>>]

\* The stream_chunk frame that carries the chunk text.
ChunkFrame(ws, text) == [Frame(ws, "stream_chunk", "", "chunk", "") EXCEPT !.text = text]

\* ConnectionHandler.sendError(ws, errorMessage)
ErrorFrame(ws, content, detail) == Frame(ws, "error", "", content, detail)

\* A dispatch loop that goes on to the next handlers after one has handled
\* the message (a pipeline instead of first-match-wins).
RECURSIVE DispatchFrom_Pipeline(_, _, _, _, _, _, _)
DispatchFrom_Pipeline(k, ws, text, context, profile, llmOk, n) ==
  IF k > Len(Handlers)
  THEN [calls |-> <<>>, outbound |-> <<>>,
        raised |-> "", context |-> context, profile |-> profile, given |-> <<>>]
  ELSE IF CanHandle(Handlers[k], text)
  THEN LET res == Handle(Handlers[k], text, context, profile, llmOk, n)
           rest == DispatchFrom_Pipeline(k + 1, ws, text, res.context, res.profile, llmOk, n)
       IN [rest EXCEPT
             !.calls = <<Call(Handlers[k], "canHandle"), Call(Handlers[k], "handle")>> \o rest.calls,
             !.outbound = <<Frame(ws, "message", res.response.role, res.response.content,
                                  res.response.detail)>> \o rest.outbound]
  ELSE LET rest == DispatchFrom_Pipeline(k + 1, ws, text, context, profile, llmOk, n)
       IN [rest EXCEPT !.calls = <<Call(Handlers[k], "canHandle")>> \o rest.calls]

\* The loop of handleIncomingMessage from handler k on: the first handler
\* whose canHandle returns true handles the message and the loop returns.
RECURSIVE DispatchFrom(_, _, _, _, _, _, _)
DispatchFrom(k, ws, text, context, profile, llmOk, n) ==
  IF k > Len(Handlers)
  THEN [calls |-> <<>>, outbound |-> <<ErrorFrame(ws, "No handler available for this message", "")>>,
        raised |-> "", context |-> context, profile |-> profile, given |-> <<>>]
  ELSE IF CanHandle(Handlers[k], text)
  THEN LET res == Handle(Handlers[k], text, context, profile, llmOk, n)
       IN [calls |-> <<Call(Handlers[k], "canHandle"), Call(Handlers[k], "handle")>>,
           outbound |-> <<Frame(ws, "message", res.response.role, res.response.content,
                                res.response.detail)>>,
           raised |-> res.raised, context |-> res.context, profile |-> res.profile,
           given |-> res.given]
  ELSE LET rest == DispatchFrom(k + 1, ws, text, context, profile, llmOk, n)
       IN [rest EXCEPT !.calls = <<Call(Handlers[k], "canHandle")>> \o rest.calls]

\* ConnectionHandler.handleIncomingMessage(ws, userId, data)
IncomingMessage(ws, frame, context, profile, llmOk, n) ==
  LET parsedMessage == ParseMessage(frame)
  IN IF ~parsedMessage.parsed
     THEN [calls |-> <<>>, outbound |-> <<ErrorFrame(ws, "Invalid message format", "")>>,
           raised |-> "", context |-> context, profile |-> profile, given |-> <<>>]
     ELSE DispatchFrom(1, ws, parsedMessage.content, context, profile, llmOk, n)

\* The text of the k-th chunk the collaborator's stream yields.
ChunkDigits == <<"1", "2", "3", "4", "5", "6", "7", "8", "9">>
ChunkText(k) == <<"chunk", ChunkDigits[k]>>

\* fullResponse += chunk, over the first k chunks.
RECURSIVE FullResponse(_)
FullResponse(k) == IF k = 0 THEN <<>> ELSE FullResponse(k - 1) \o ChunkText(k)

\* handleStream saving what has been streamed so far when the collaborator's
\* stream fails.
HandleStream_SavePartial(ws, text, context, profile, chunks, streamOk, n) ==
  LET nutritionContext == GetOrCreateContext(context)
      userProfile == GetOrCreateUserProfile(profile)
      withUser == AddMessage(nutritionContext.messages, ChatMessage("user", n, text))
      withReply == AddMessage(withUser, ChatMessage("assistant", n, FullResponse(chunks)))
      yielded == [k \in 1..chunks |-> ChunkFrame(ws, ChunkText(k))]
  IN IF streamOk
     THEN [outbound |-> yielded, raised |-> "",
           context |-> [nutritionContext EXCEPT !.messages = withReply],
           profile |-> userProfile,
           given |-> GetRecentMessages(withUser, RecentCount)]
     ELSE [outbound |-> Append(yielded,
                          Frame(ws, "stream_chunk", "", "Sorry, I encountered an error: ",
                                "Failed to generate streaming response.")),
           raised |-> "Failed to generate streaming response.",
           context |-> [nutritionContext EXCEPT !.messages = withReply],
           profile |-> userProfile,
           given |-> GetRecentMessages(withUser, RecentCount)]

\* ChatMessageHandler.handleStream(message, userId) consumed to its end: the
\* collaborator's stream yields chunks and then either completes or fails; a
\* failure is caught and answered with one more yielded text.
HandleStream(ws, text, context, profile, chunks, streamOk, n) ==
  LET nutritionContext == GetOrCreateContext(context)
      userProfile == GetOrCreateUserProfile(profile)
      withUser == AddMessage(nutritionContext.messages, ChatMessage("user", n, text))
      withReply == AddMessage(withUser, ChatMessage("assistant", n, FullResponse(chunks)))
      yielded == [k \in 1..chunks |-> ChunkFrame(ws, ChunkText(k))]
  IN IF streamOk
     THEN [outbound |-> yielded, raised |-> "",
           context |-> [nutritionContext EXCEPT !.messages = withReply],
           profile |-> userProfile,
           given |-> GetRecentMessages(withUser, RecentCount)]
     ELSE [outbound |-> Append(yielded,
                          Frame(ws, "stream_chunk", "", "Sorry, I encountered an error: ",
                                "Failed to generate streaming response.")),
           raised |-> "Failed to generate streaming response.",
           context |-> nutritionContext, profile |-> userProfile,
           given |-> GetRecentMessages(withUser, RecentCount)]

\* The loop of handleStreamingMessage from handler k on: the first handler
\* that accepts the message and has handleStream streams it; when the loop
\* ends the message content goes through handleIncomingMessage.
RECURSIVE StreamFrom(_, _, _, _, _, _, _, _, _)
StreamFrom(k, ws, text, context, profile, llmOk, chunks, streamOk, n) ==
  IF k > Len(Handlers)
  THEN IncomingMessage(ws, [kind |-> "raw", content |-> text], context, profile, llmOk, n)
  ELSE IF CanHandle(Handlers[k], text) /\ HasHandleStream(Handlers[k])
  THEN LET res == HandleStream(ws, text, context, profile, chunks, streamOk, n)
       IN [calls |-> <<Call(Handlers[k], "canHandle"), Call(Handlers[k], "handleStream")>>,
           outbound |-> <<Frame(ws, "stream_start", "", "", "")>> \o res.outbound
                          \o <<Frame(ws, "stream_end", "", "", "")>>,
           raised |-> res.raised, context |-> res.context, profile |-> res.profile,
           given |-> res.given]
  ELSE LET rest == StreamFrom(k + 1, ws, text, context, profile, llmOk, chunks, streamOk, n)
       IN [rest EXCEPT !.calls = <<Call(Handlers[k], "canHandle")>> \o rest.calls]

(***************************************************************************)
(* SessionActor: NutritionAgent                                            *)
(***************************************************************************)
\* The message contents handed to handleStreamingMessage: a conversational
\* text, a natural-language command and a slash command.
StreamTexts == {T_chat, T_recommend, T_slashHelp}

InboundFrames ==
  {[kind |-> "envelope", content |-> text] : text \in InboundTexts \cup {<<>>}}
    \cup {[kind |-> "raw", content |-> text] : text \in {T_chat, T_analyze}}
    \cup {[kind |-> "json", content |-> <<>>]}

NoEvent == [op |-> "none", ws |-> NoWs, userId |-> NoUser, content |-> <<>>,
            parsed |-> FALSE, raised |-> "", kind |-> ""]

InitServer ==
  /\ wsToUserId = [ws \in Transports |-> NoUser]
  /\ activeConnections = [u \in UserKeys |-> NoWs]
  /\ wsState = [ws \in Transports |-> "none"]
  /\ contextStore = [u \in UserKeys |-> NoContext]
  /\ profileStore = [u \in UserKeys |-> NoProfile]
  /\ turn = 0
  /\ lastEvent = NoEvent
  /\ calls = <<>>
  /\ outbound = <<>>
  /\ llmGiven = <<>>

\* ConnectionHandler.isUserConnected(userId)
IsUserConnected(userId) == activeConnections[userId] # NoWs

\* ConnectionHandler.sendToUser(userId, message): the transport written to.
SendToUserTarget(userId) == activeConnections[userId]

\* ConnectionHandler.handleConnection(ws, userId): the connection table afterwards.
HandleConnection(connections, ws, userId) == [connections EXCEPT ![userId] = ws]

\* NutritionAgent.handleWebSocketUpgrade(request) for ?userId=<userId>, with
\* ws the server end of the new WebSocketPair.
HandleWebSocketUpgrade(ws, userId) ==
  /\ wsState[ws] = "none"
  /\ \A w \in Transports : w < ws => wsState[w] # "none"
  /\ wsState' = [wsState EXCEPT ![ws] = "open"]
  /\ wsToUserId' = [wsToUserId EXCEPT ![ws] = userId]
  /\ activeConnections' = HandleConnection(activeConnections, ws, userId)
  /\ outbound' = <<Frame(ws, "system", "", "Connected to Nutrition Coach!", "")>>
  /\ calls' = <<>>
  /\ llmGiven' = <<>>
  /\ lastEvent' = [NoEvent EXCEPT !.op = "upgrade", !.ws = ws, !.userId = userId]
  /\ UNCHANGED <<contextStore, profileStore, turn>>

\* wsToUserId.get(ws) || "unknown"
UserIdOf(ws) == IF wsToUserId[ws] = NoUser THEN UnknownUser ELSE wsToUserId[ws]

\* The effects of a dispatch result res for the identity userId.
ApplyResult(userId, res) ==
  /\ turn' = turn + 1
  /\ contextStore' = [contextStore EXCEPT ![userId] = res.context]
  /\ profileStore' = [profileStore EXCEPT ![userId] = res.profile]
  /\ calls' = res.calls
  /\ outbound' = res.outbound
  /\ llmGiven' = res.given

\* NutritionAgent.webSocketMessage(ws, message)
WebSocketMessage(ws, frame, llmOk) ==
  /\ wsState[ws] = "open"
  /\ turn < MaxTurns
  /\ \E userId \in {UserIdOf(ws)} :
       \E res \in {IncomingMessage(ws, frame, contextStore[userId], profileStore[userId],
                                   llmOk, turn + 1)} :
         /\ ApplyResult(userId, res)
         /\ lastEvent' = [op |-> "message", ws |-> ws, userId |-> userId,
                          content |-> ParseMessage(frame).content,
                          parsed |-> ParseMessage(frame).parsed, raised |-> res.raised,
                          kind |-> frame.kind]
  /\ UNCHANGED <<wsToUserId, activeConnections, wsState>>

\* ConnectionHandler.handleStreamingMessage(ws, userId, message) for an open
\* transport and the identity bound to it.
HandleStreamingMessage(ws, text, llmOk, chunks, streamOk) ==
  /\ wsState[ws] = "open"
  /\ turn < MaxTurns
  /\ \E userId \in {UserIdOf(ws)} :
       \E res \in {StreamFrom(1, ws, text, contextStore[userId], profileStore[userId],
                              llmOk, chunks, streamOk, turn + 1)} :
         /\ ApplyResult(userId, res)
         /\ lastEvent' = [op |-> "stream", ws |-> ws, userId |-> userId,
                          content |-> text, parsed |-> TRUE, raised |-> res.raised,
                          kind |-> ""]
  /\ UNCHANGED <<wsToUserId, activeConnections, wsState>>

\* NutritionAgent.webSocketClose(ws, code, reason): the mapping is removed;
\* ConnectionHandler has no handleDisconnection method, so nothing else runs.
WebSocketClose(ws) ==
  /\ wsState[ws] \in {"open", "errored"}
  /\ wsState' = [wsState EXCEPT ![ws] = "closed"]
  /\ lastEvent' = [NoEvent EXCEPT !.op = "close", !.ws = ws, !.userId = UserIdOf(ws)]
  /\ wsToUserId' = [wsToUserId EXCEPT ![ws] = NoUser]
  /\ calls' = <<>>
  /\ outbound' = <<>>
  /\ llmGiven' = <<>>
  /\ UNCHANGED <<activeConnections, contextStore, profileStore, turn>>

\* NutritionAgent.webSocketError(ws, error): logs only.
WebSocketError(ws) ==
  /\ wsState[ws] = "open"
  /\ wsState' = [wsState EXCEPT ![ws] = "errored"]
  /\ lastEvent' = [NoEvent EXCEPT !.op = "error", !.ws = ws, !.userId = UserIdOf(ws)]
  /\ calls' = <<>>
  /\ outbound' = <<>>
  /\ llmGiven' = <<>>
  /\ UNCHANGED <<wsToUserId, activeConnections, contextStore, profileStore, turn>>

Upgrade == \E ws \in Transports, userId \in Identities : HandleWebSocketUpgrade(ws, userId)
Message == \E ws \in Transports, frame \in InboundFrames, llmOk \in BOOLEAN :
             WebSocketMessage(ws, frame, llmOk)
\* The inputs of a streamed turn; an input the call does not read is fixed (a
\* text the fallback streams never reaches handleIncomingMessage, and the
\* other texts never reach a stream).
StreamInputs ==
  {in \in [text : StreamTexts, llmOk : BOOLEAN, chunks : 0..MaxChunks, streamOk : BOOLEAN] :
     IF ChatCanHandleOf[in.text] THEN in.llmOk ELSE in.chunks = 0 /\ in.streamOk}

Streaming == \E ws \in Transports, in \in StreamInputs :
               HandleStreamingMessage(ws, in.text, in.llmOk, in.chunks, in.streamOk)
Close == \E ws \in Transports : WebSocketClose(ws)
Error == \E ws \in Transports : WebSocketError(ws)

NextServer ==
  \/ Upgrade /\ UNCHANGED <<taskVars, clientVars, turnVars, appendVars, ioVars, matcherVars, restartVars>>
  \/ Message /\ UNCHANGED <<taskVars, clientVars, turnVars, appendVars, ioVars, matcherVars, restartVars>>
  \/ Streaming /\ UNCHANGED <<taskVars, clientVars, turnVars, appendVars, ioVars, matcherVars, restartVars>>
  \/ Close /\ UNCHANGED <<taskVars, clientVars, turnVars, appendVars, ioVars, matcherVars, restartVars>>
  \/ Error /\ UNCHANGED <<taskVars, clientVars, turnVars, appendVars, ioVars, matcherVars, restartVars>>


(***************************************************************************)
(* ConnectionSupervisor: useWebSocket                                      *)
(***************************************************************************)
SocketIds == 1..MaxSockets
TimerIds == 1..MaxTimers
NoSocket == 0
NoTimer == 0
NoTimerEntry == [state |-> "none", delay |-> 0]
maxReconnectAttempts == 5

RECURSIVE Pow2(_)
Pow2(n) == IF n = 0 THEN 1 ELSE 2 * Pow2(n - 1)

Min(a, b) == IF a <= b THEN a ELSE b

\* A backoff that doubles without the 30000 ms cap.
ReconnectDelay_NoCap(attempts) == 1000 * Pow2(attempts)

\* onclose: Math.min(1000 * Math.pow(2, attempts), 30000)
ReconnectDelay(attempts) == Min(1000 * Pow2(attempts), 30000)

\* new WebSocket(...) and setTimeout(...) hand out objects never seen before.
FreshSockets == {s \in SocketIds : readyState[s] = "none"}
NewSocket == CHOOSE s \in FreshSockets : \A r \in FreshSockets : s <= r
FreshTimers == {t \in TimerIds : timers[t].state = "none"}
NewTimer == CHOOSE t \in FreshTimers : \A r \in FreshTimers : t <= r

InitClient ==
  /\ readyState = [s \in SocketIds |-> "none"]
  /\ wsRef = NoSocket
  /\ isConnectingRef = FALSE
  /\ shouldReconnectRef = TRUE
  /\ reconnectAttemptsRef = 0
  /\ reconnectTimeoutRef = NoTimer
  /\ timers = [t \in TimerIds |-> NoTimerEntry]
  /\ isConnected = FALSE
  /\ mounted = FALSE
  /\ setups = 0
  /\ closeRun = 0
  /\ tornDown = {}

\* connect(): a no-op while an attempt is marked in flight or the referenced
\* socket is open; otherwise it creates a socket and references it.
Connect ==
  IF isConnectingRef \/ (wsRef # NoSocket /\ readyState[wsRef] = "OPEN")
  THEN UNCHANGED <<isConnectingRef, readyState, wsRef>>
  ELSE /\ FreshSockets # {}
       /\ isConnectingRef' = TRUE
       /\ readyState' = [readyState EXCEPT ![NewSocket] = "CONNECTING"]
       /\ wsRef' = NewSocket

\* ws.onopen of socket s.
OnOpen(s) ==
  /\ readyState[s] = "CONNECTING"
  /\ readyState' = [readyState EXCEPT ![s] = "OPEN"]
  /\ isConnected' = TRUE
  /\ reconnectAttemptsRef' = 0
  /\ isConnectingRef' = FALSE
  /\ closeRun' = 0
  /\ UNCHANGED <<wsRef, shouldReconnectRef, reconnectTimeoutRef, timers, mounted,
                 setups, tornDown>>

\* The body of ws.onclose of socket s; the handler stays attached to the socket
\* for the socket's whole life and works on the hook's shared refs.
CloseHandler(s) ==
  /\ readyState' = [readyState EXCEPT ![s] = "CLOSED"]
  /\ isConnected' = FALSE
  /\ isConnectingRef' = FALSE
  /\ wsRef' = NoSocket
  /\ IF shouldReconnectRef /\ reconnectAttemptsRef < maxReconnectAttempts
     THEN /\ FreshTimers # {}
          /\ reconnectAttemptsRef' = reconnectAttemptsRef + 1
          /\ timers' = [timers EXCEPT ![NewTimer] =
                          [state |-> "pending",
                           delay |-> ReconnectDelay(reconnectAttemptsRef + 1)]]
          /\ reconnectTimeoutRef' = NewTimer
     ELSE UNCHANGED <<reconnectAttemptsRef, timers, reconnectTimeoutRef>>
  /\ closeRun' = IF mounted THEN closeRun + 1 ELSE closeRun
  /\ UNCHANGED <<shouldReconnectRef, mounted, setups, tornDown>>

\* The close event of an open or closing socket.
OnClose(s) ==
  /\ readyState[s] \in {"OPEN", "CLOSING"}
  /\ CloseHandler(s)

\* A failed connection: the error event (which clears the in-flight mark) and
\* the close event are delivered in one task, with the socket already closed.
OnError(s) ==
  /\ readyState[s] \in {"CONNECTING", "OPEN", "CLOSING"}
  /\ CloseHandler(s)

\* The callback of reconnect timer t: connect().
ReconnectTimer(t) ==
  /\ timers[t].state = "pending"
  /\ timers' = [timers EXCEPT ![t].state = "fired"]
  /\ Connect
  /\ UNCHANGED <<shouldReconnectRef, reconnectAttemptsRef, reconnectTimeoutRef,
                 isConnected, mounted, setups, closeRun, tornDown>>

\* The effect's set-up: on mount, and again after every cleanup that a change
\* of connect (of userId) or a re-mount of the effect causes; the refs persist.
EffectSetup ==
  /\ ~mounted
  /\ setups < MaxSetups
  /\ shouldReconnectRef' = TRUE
  /\ Connect
  /\ mounted' = TRUE
  /\ setups' = setups + 1
  /\ UNCHANGED <<reconnectAttemptsRef, reconnectTimeoutRef, timers, isConnected,
                 closeRun, tornDown>>

\* WebSocket.close(): a connecting or open socket starts closing; its close
\* event is delivered later.
CloseSocket(state) == IF state \in {"CONNECTING", "OPEN"} THEN "CLOSING" ELSE state

\* The effect's cleanup.
EffectCleanup ==
  /\ mounted
  /\ shouldReconnectRef' = FALSE
  /\ timers' = IF reconnectTimeoutRef # NoTimer
                  /\ timers[reconnectTimeoutRef].state = "pending"
               THEN [timers EXCEPT ![reconnectTimeoutRef].state = "cleared"]
               ELSE timers
  /\ reconnectTimeoutRef' = NoTimer
  /\ readyState' = IF wsRef # NoSocket
                   THEN [readyState EXCEPT ![wsRef] = CloseSocket(readyState[wsRef])]
                   ELSE readyState
  /\ tornDown' = IF wsRef # NoSocket THEN tornDown \cup {wsRef} ELSE tornDown
  /\ wsRef' = NoSocket
  /\ isConnectingRef' = FALSE
  /\ mounted' = FALSE
  /\ UNCHANGED <<reconnectAttemptsRef, isConnected, setups, closeRun>>

Open == \E s \in SocketIds : OnOpen(s)
Closed == \E s \in SocketIds : OnClose(s)
Failed == \E s \in SocketIds : OnError(s)
TimerFires == \E t \in TimerIds : ReconnectTimer(t)

NextClient ==
  \/ EffectSetup /\ UNCHANGED <<taskVars, serverVars, turnVars, appendVars, ioVars, matcherVars, restartVars>>
  \/ EffectCleanup /\ UNCHANGED <<taskVars, serverVars, turnVars, appendVars, ioVars, matcherVars, restartVars>>
  \/ Open /\ UNCHANGED <<taskVars, serverVars, turnVars, appendVars, ioVars, matcherVars, restartVars>>
  \/ Closed /\ UNCHANGED <<taskVars, serverVars, turnVars, appendVars, ioVars, matcherVars, restartVars>>
  \/ Failed /\ UNCHANGED <<taskVars, serverVars, turnVars, appendVars, ioVars, matcherVars, restartVars>>
  \/ TimerFires /\ UNCHANGED <<taskVars, serverVars, turnVars, appendVars, ioVars, matcherVars, restartVars>>

(***************************************************************************)
(* useWebSocket: sendMessage and ws.onmessage                              *)
(***************************************************************************)
NoSend == [called |-> FALSE, content |-> "", returned |-> FALSE, socket |-> NoSocket,
           frames |-> <<>>, openSockets |-> {}]

\* The object as first constructed: storage holds no "scheduled_reminders",
\* so the constructor's load finds nothing, and no transport was accepted.
NoReload == [state |-> "none", reminders |-> [id \in TaskIds |-> NoStatus]]

InitRestart ==
  /\ reload = NoReload
  /\ acceptedAs = [ws \in Transports |-> NoUser]

\* CommandHandler: the outcome record of one content, before any is tried.
NoMatch == [done |-> FALSE, canHandle |-> FALSE, command |-> "none", handler |-> "none",
            understood |-> FALSE]

\* In the other specifications no content is under test.
InitMatcherIdle ==
  /\ matcherText = <<>>
  /\ matcherResult = NoMatch

InitIO ==
  /\ lastSend = NoSend
  /\ received = <<>>
  /\ delivered = <<>>

\* The texts the application passes to sendMessage.
SendTexts == {"hello"}

\* The sockets of the hook that are open.
OpenSockets == {s \in SocketIds : readyState[s] = "OPEN"}

\* sendMessage(content): with a referenced socket that is open, one frame
\* {content, timestamp} is sent on it and true is returned; otherwise false.
\* The history keeps the sockets that were open when the call was made.
SendMessage(content) ==
  /\ lastSend' =
       IF wsRef # NoSocket /\ readyState[wsRef] = "OPEN"
       THEN [called |-> TRUE, content |-> content, returned |-> TRUE, socket |-> wsRef,
             frames |-> <<[content |-> content, timestamp |-> "Date.now"]>>,
             openSockets |-> OpenSockets]
       ELSE [called |-> TRUE, content |-> content, returned |-> FALSE, socket |-> NoSocket,
             frames |-> <<>>, openSockets |-> OpenSockets]
  /\ UNCHANGED <<received, delivered>>

\* The type field of the wire envelope (WebSocketMessage.type), and one value
\* outside it.
EnvelopeTypes == {"message", "system", "error", "stream_start", "stream_chunk", "stream_end"}

\* event.data of a message event: text JSON.parse rejects, or an envelope with
\* a type, a content (possibly absent) and a role (possibly absent).
InboundData ==
  {[parses |-> FALSE, type |-> "", content |-> "", role |-> ""]} \cup
  [parses : {TRUE}, type : EnvelopeTypes \cup {"other"}, content : {"", "text"},
   role : {"", "user"}]

\* The Message objects ws.onmessage hands to onMessageRef.current for data;
\* frame numbers the message event.
Delivered(data, frame) ==
  IF ~data.parses THEN <<>>
  ELSE IF data.type = "message" /\ data.content # ""
  THEN <<[frame |-> frame, role |-> IF data.role # "" THEN data.role ELSE "assistant",
          prefix |-> "", content |-> data.content]>>
  ELSE IF data.type = "system" /\ data.content # ""
  THEN <<[frame |-> frame, role |-> "system", prefix |-> "", content |-> data.content]>>
  ELSE IF data.type = "error" /\ data.content # ""
  THEN <<[frame |-> frame, role |-> "system", prefix |-> "Error: ",
          content |-> data.content]>>
  ELSE <<>>

\* ws.onmessage for event.data = data; the handler is the same closure on
\* every socket of the hook and reads no ref besides onMessageRef.
OnMessage(data) ==
  /\ Len(received) < MaxFrames
  /\ received' = Append(received, data)
  /\ delivered' = delivered \o Delivered(data, Len(received) + 1)
  /\ UNCHANGED lastSend

Send == \E content \in SendTexts : SendMessage(content)
Receive == \E data \in InboundData : OnMessage(data)

NextClientIO ==
  \/ EffectSetup /\ UNCHANGED <<taskVars, serverVars, turnVars, appendVars, ioVars, matcherVars, restartVars>>
  \/ EffectCleanup /\ UNCHANGED <<taskVars, serverVars, turnVars, appendVars, ioVars, matcherVars, restartVars>>
  \/ Open /\ UNCHANGED <<taskVars, serverVars, turnVars, appendVars, ioVars, matcherVars, restartVars>>
  \/ Closed /\ UNCHANGED <<taskVars, serverVars, turnVars, appendVars, ioVars, matcherVars, restartVars>>
  \/ Failed /\ UNCHANGED <<taskVars, serverVars, turnVars, appendVars, ioVars, matcherVars, restartVars>>
  \/ TimerFires /\ UNCHANGED <<taskVars, serverVars, turnVars, appendVars, ioVars, matcherVars, restartVars>>
  \/ Send /\ UNCHANGED <<taskVars, serverVars, clientVars, turnVars, appendVars, matcherVars, restartVars>>

NextReceive ==
  \/ Receive /\ UNCHANGED <<taskVars, serverVars, clientVars, turnVars, appendVars, matcherVars, restartVars>>

(***************************************************************************)
(* A conversational turn in two steps.  ChatMessageHandler.handle awaits   *)
(* the text-generation collaborator between loading the context and        *)
(* saving it; while it waits the actor is free to take the next            *)
(* webSocketMessage notification, and neither NutritionAgent nor           *)
(* ConnectionHandler queues or refuses it.                                 *)
(***************************************************************************)
TurnIds == 1..MaxTurns
NoTurn == [state |-> "none", ws |-> NoWs, userId |-> NoUser, context |-> NoContext]

InitTurns == inflight = [n \in TurnIds |-> NoTurn]

\* webSocketMessage(ws, text) for a conversational text, up to the point where
\* ChatMessageHandler.handle awaits generateChatResponse: the context and the
\* profile are loaded (and created in storage when absent) and the user
\* message is added to the loaded context object.
TurnBegin(ws, text) ==
  LET n == turn + 1
      userId == UserIdOf(ws)
      nutritionContext == GetOrCreateContext(contextStore[userId])
      userProfile == GetOrCreateUserProfile(profileStore[userId])
      withUser == AddMessage(nutritionContext.messages, ChatMessage("user", n, text))
  IN /\ wsState[ws] = "open"
     /\ turn < MaxTurns
     /\ ~CanHandle("command", text) /\ CanHandle("chat", text)
     /\ turn' = n
     /\ contextStore' = [contextStore EXCEPT ![userId] = nutritionContext]
     /\ profileStore' = [profileStore EXCEPT ![userId] = userProfile]
     /\ inflight' = [inflight EXCEPT ![n] =
                       [state |-> "awaiting", ws |-> ws, userId |-> userId,
                        context |-> [nutritionContext EXCEPT !.messages = withUser]]]
     /\ llmGiven' = GetRecentMessages(withUser, RecentCount)
     /\ UNCHANGED <<wsToUserId, activeConnections, wsState, lastEvent, calls, outbound>>

\* The rest of ChatMessageHandler.handle for turn n once the collaborator has
\* answered (llmOk) or failed: on an answer the assistant message is added to
\* the context object the turn holds and that object is saved; on a failure
\* the apology is returned and nothing is saved.
TurnComplete(n, llmOk) ==
  LET held == inflight[n]
      withReply == AddMessage(held.context.messages, ChatMessage("assistant", n, LlmResponse))
      response == IF llmOk THEN Reply("llm-response", "")
                  ELSE ChatApology("Failed to generate response")
  IN /\ held.state = "awaiting"
     /\ contextStore' = IF llmOk
                        THEN [contextStore EXCEPT ![held.userId] =
                                [held.context EXCEPT !.messages = withReply]]
                        ELSE contextStore
     /\ inflight' = [inflight EXCEPT ![n] =
                       [NoTurn EXCEPT !.state = IF llmOk THEN "completed" ELSE "failed",
                                      !.ws = held.ws, !.userId = held.userId]]
     /\ outbound' = <<Frame(held.ws, "chat", response.role, response.content, response.detail)>>
     /\ UNCHANGED <<wsToUserId, activeConnections, wsState, profileStore, turn,
                    lastEvent, calls, llmGiven>>

Begin == \E ws \in Transports : TurnBegin(ws, T_chat)
Complete == \E n \in TurnIds, llmOk \in BOOLEAN : TurnComplete(n, llmOk)

NextTurns ==
  \/ Upgrade /\ UNCHANGED <<taskVars, clientVars, turnVars, appendVars, ioVars, matcherVars, restartVars>>
  \/ Begin /\ UNCHANGED <<taskVars, clientVars, appendVars, ioVars, matcherVars, restartVars>>
  \/ Complete /\ UNCHANGED <<taskVars, clientVars, appendVars, ioVars, matcherVars, restartVars>>

(***************************************************************************)
(* NutritionContext.addMessage and UserProfile.addMeal on plain objects    *)
(***************************************************************************)
InitAppend ==
  /\ conversationHistory = <<>>
  /\ appendedMessages = 0
  /\ mealHistory = <<>>
  /\ appendedMeals = 0

\* context.addMessage(m) for the appendedMessages + 1 -th message
AppendMessage ==
  /\ appendedMessages < MaxAppends
  /\ appendedMessages' = appendedMessages + 1
  /\ conversationHistory' = AddMessage(conversationHistory, appendedMessages + 1)
  /\ UNCHANGED <<mealHistory, appendedMeals>>

\* profile.addMeal(meal) for the appendedMeals + 1 -th meal
AppendMeal ==
  /\ appendedMeals < MaxAppends
  /\ appendedMeals' = appendedMeals + 1
  /\ mealHistory' = AddMealEntry(mealHistory, appendedMeals + 1)
  /\ UNCHANGED <<conversationHistory, appendedMessages>>

NextAppend ==
  \/ AppendMessage /\ UNCHANGED <<taskVars, serverVars, clientVars, turnVars, ioVars, matcherVars, restartVars>>
  \/ AppendMeal /\ UNCHANGED <<taskVars, serverVars, clientVars, turnVars, ioVars, matcherVars, restartVars>>

(***************************************************************************)
(* Conversational turns on contexts that earlier turns have filled         *)
(***************************************************************************)
\* Lengths of the stored conversation history when the actor wakes up: empty,
\* around the count handed to the collaborator and around the cap.  Turns add
\* messages in pairs, so the lengths are even.
PriorLengths == {0, RecentCount - 2, RecentCount, MaxContextMessages - 2, MaxContextMessages}

\* The history left by len \div 2 earlier turns, numbered up to 0.
PriorMessages(len) ==
  [i \in 1..len |->
     IF i % 2 = 1
     THEN ChatMessage("user", ((i + 1) \div 2) - (len \div 2), T_chat)
     ELSE ChatMessage("assistant", (i \div 2) - (len \div 2), LlmResponse)]

InitChat ==
  /\ InitTasks /\ InitClient /\ InitTurns /\ InitAppend /\ InitIO /\ InitMatcherIdle /\ InitRestart
  /\ wsToUserId = [ws \in Transports |-> NoUser]
  /\ activeConnections = [u \in UserKeys |-> NoWs]
  /\ wsState = [ws \in Transports |-> "none"]
  /\ \E len \in PriorLengths :
       /\ contextStore = [u \in UserKeys |->
                            IF u = "u1" /\ len > 0
                            THEN [exists |-> TRUE, messages |-> PriorMessages(len)]
                            ELSE NoContext]
       /\ profileStore = [u \in UserKeys |->
                            IF u = "u1" /\ len > 0
                            THEN GetOrCreateUserProfile(NoProfile)
                            ELSE NoProfile]
  /\ turn = 0
  /\ lastEvent = NoEvent
  /\ calls = <<>>
  /\ outbound = <<>>
  /\ llmGiven = <<>>

NextChat ==
  \/ Upgrade /\ UNCHANGED <<taskVars, clientVars, turnVars, appendVars, ioVars, matcherVars, restartVars>>
  \/ Message /\ UNCHANGED <<taskVars, clientVars, turnVars, appendVars, ioVars, matcherVars, restartVars>>

(***************************************************************************)
(* CommandHandler.canHandle and parseCommand on message contents           *)
(***************************************************************************)
\* Message contents: a word or a two-word phrase of the patterns, the two
\* words one or two spaces apart, alone or with text before and after it.
MatcherWords ==
  {S_analyze, S_recommend, S_suggest, S_help, S_pizza, S_slash \o S_help,
   S_slash \o S_pizza, <<"H", "e", "l", "p">>}
MatcherPairs ==
  {<<S_set, S_goal>>, <<S_set, S_goals>>, <<S_show, S_history>>, <<S_meal, S_history>>,
   <<S_my, S_goal>>, <<S_my, S_goals>>, <<S_show, S_goals>>, <<S_analyze, S_pizza>>}
MatcherSeparators == {S_space, S_space \o S_space}
MatcherPhrases ==
  MatcherWords \cup {p[1] \o sep \o p[2] : p \in MatcherPairs, sep \in MatcherSeparators}
MatcherTexts ==
  {pre \o phrase \o suf : pre \in {<<>>, S_space, S_pizza \o S_space},
                          phrase \in MatcherPhrases,
                          suf \in {<<>>, S_space \o S_pizza}}

InitMatcher ==
  /\ InitTasks /\ InitServer /\ InitClient /\ InitTurns /\ InitAppend /\ InitIO
  /\ InitRestart
  /\ matcherText \in MatcherTexts
  /\ matcherResult = NoMatch

\* handleIncomingMessage for a message with this content, as far as the
\* handler chosen and CommandHandler.handle's parse go: the first handler
\* whose canHandle accepts handles it, and CommandHandler.handle answers
\* "I didn't understand that command" when parseCommand returns null.
MatchAndDispatch ==
  LET command == ParseCommand(matcherText)
      handler == IF CommandCanHandle(matcherText) THEN "command"
                 ELSE IF ChatCanHandle(matcherText) THEN "chat"
                 ELSE "none"
  IN /\ ~matcherResult.done
     /\ matcherResult' = [done |-> TRUE,
                          canHandle |-> CommandCanHandle(matcherText),
                          command |-> command.type,
                          handler |-> handler,
                          understood |-> handler = "command" /\ command # NoCommand]
     /\ UNCHANGED matcherText

NextMatcher ==
  \/ MatchAndDispatch /\ UNCHANGED <<taskVars, serverVars, clientVars, turnVars, appendVars, ioVars, restartVars>>

(***************************************************************************)
(* Restart of the Durable Object: the constructors run again               *)
(***************************************************************************)
\* new ReminderWorkflow(state.storage) after an eviction: the in-memory Map is
\* new and empty, and the constructor starts loadScheduledReminders without
\* awaiting it; its storage.get reads the table as persisted at that moment.
\* Storage (the persisted table, the raw entries, the alarm) is kept.  The
\* model follows one restart.
RestartWorkflow ==
  /\ reload.state = "none"
  /\ scheduledReminders' = [id \in TaskIds |-> NoStatus]
  /\ reload' = [state |-> "pending", reminders |-> persistedReminders]
  /\ taskCall' = TaskCall("restart", 0, {}, {})
  /\ UNCHANGED <<persistedReminders, workflowStore, alarm, now, taskResult, sweptCancelled>>

\* loadScheduledReminders resumes after its await: when the key held a table
\* the in-memory Map is replaced by a new Map of it.
LoadScheduledReminders ==
  /\ reload.state = "pending"
  /\ reload' = [state |-> "loaded", reminders |-> NoReload.reminders]
  /\ scheduledReminders' = IF reload.reminders = NoReload.reminders
                            THEN scheduledReminders
                            ELSE reload.reminders
  /\ taskCall' = TaskCall("reload", 0, {}, {})
  /\ UNCHANGED <<persistedReminders, workflowStore, alarm, now, taskResult, sweptCancelled>>

\* The scheduling, cancel, retry and sweep operations around one restart, all
\* within one instant of the clock.
NextTasksRestart ==
  \/ Schedule /\ UNCHANGED <<serverVars, clientVars, turnVars, appendVars, ioVars, matcherVars, restartVars>>
  \/ Cancel /\ UNCHANGED <<serverVars, clientVars, turnVars, appendVars, ioVars, matcherVars, restartVars>>
  \/ Retry /\ UNCHANGED <<serverVars, clientVars, turnVars, appendVars, ioVars, matcherVars, restartVars>>
  \/ Alarm /\ UNCHANGED <<serverVars, clientVars, turnVars, appendVars, ioVars, matcherVars, restartVars>>
  \/ RestartWorkflow /\ UNCHANGED <<serverVars, clientVars, turnVars, appendVars, ioVars, matcherVars, acceptedAs>>
  \/ LoadScheduledReminders /\ UNCHANGED <<serverVars, clientVars, turnVars, appendVars, ioVars, matcherVars, acceptedAs>>

\* new NutritionAgent(state, env) after an eviction: wsToUserId and the
\* ConnectionHandler's activeConnections are new empty Maps; the transports
\* accepted with state.acceptWebSocket stay open, and storage is kept.
RestartAgent ==
  /\ \E ws \in Transports : wsState[ws] = "open"
  /\ wsToUserId' = [ws \in Transports |-> NoUser]
  /\ activeConnections' = [u \in UserKeys |-> NoWs]
  /\ lastEvent' = [NoEvent EXCEPT !.op = "restart"]
  /\ calls' = <<>>
  /\ outbound' = <<>>
  /\ llmGiven' = <<>>
  /\ UNCHANGED <<wsState, contextStore, profileStore, turn>>

\* handleWebSocketUpgrade, with the userId the transport is accepted with
\* kept as history.
UpgradeAccepted ==
  /\ Upgrade
  /\ acceptedAs' = [acceptedAs EXCEPT ![lastEvent'.ws] = lastEvent'.userId]
  /\ UNCHANGED reload

NextServerRestart ==
  \/ UpgradeAccepted /\ UNCHANGED <<taskVars, clientVars, turnVars, appendVars, ioVars, matcherVars>>
  \/ Message /\ UNCHANGED <<taskVars, clientVars, turnVars, appendVars, ioVars, matcherVars, restartVars>>
  \/ Streaming /\ UNCHANGED <<taskVars, clientVars, turnVars, appendVars, ioVars, matcherVars, restartVars>>
  \/ Close /\ UNCHANGED <<taskVars, clientVars, turnVars, appendVars, ioVars, matcherVars, restartVars>>
  \/ Error /\ UNCHANGED <<taskVars, clientVars, turnVars, appendVars, ioVars, matcherVars, restartVars>>
  \/ RestartAgent /\ UNCHANGED <<taskVars, clientVars, turnVars, appendVars, ioVars, matcherVars, restartVars>>

Init == /\ InitTasks /\ InitServer /\ InitClient /\ InitTurns /\ InitAppend /\ InitIO
        /\ InitMatcherIdle /\ InitRestart

SpecTasksRestart == Init /\ [][NextTasksRestart]_vars

SpecServerRestart == Init /\ [][NextServerRestart]_vars

SpecMatcher == InitMatcher /\ [][NextMatcher]_vars

SpecClientIO == Init /\ [][NextClientIO]_vars

SpecReceive == Init /\ [][NextReceive]_vars

SpecChat == InitChat /\ [][NextChat]_vars

SpecTurns == Init /\ [][NextTurns]_vars

SpecAppend == Init /\ [][NextAppend]_vars

SpecTasks == Init /\ [][NextTasks]_vars

SpecServer == Init /\ [][NextServer]_vars

SpecClient == Init /\ [][NextClient]_vars

\* The host fires an armed alarm, the alarm handler runs, and time passes.
SpecTasksFair ==
  /\ SpecTasks
  /\ WF_vars(Alarm /\ UNCHANGED <<serverVars, clientVars, turnVars, appendVars, ioVars, matcherVars, restartVars>>)
  /\ WF_vars(Tick /\ UNCHANGED <<serverVars, clientVars, turnVars, appendVars, ioVars, matcherVars, restartVars>>)

(***************************************************************************)
(* Claims about the scheduled-task store                                   *)
(***************************************************************************)
PendingIds == {id \in TaskIds : scheduledReminders[id].state = "pending"}

EarliestPendingDue ==
  CHOOSE t \in {scheduledReminders[id].startedAt : id \in PendingIds} :
    \A id \in PendingIds : t <= scheduledReminders[id].startedAt

\* C1: whenever some task is pending, the single wake-up alarm is armed and
\* its time equals the smallest dueAt among the pending tasks (so scheduling
\* a later task never moves the alarm past an earlier pending task).
C1_AlarmAtEarliestPending ==
  PendingIds # {} => alarm = EarliestPendingDue

\* C2: every task in state pending eventually leaves pending, given that the
\* host fires the armed alarm, the alarm handler runs and time passes.
C2_PendingEventuallyLeaves ==
  \A id \in TaskIds :
    (scheduledReminders[id].state = "pending")
      ~> (scheduledReminders[id].state # "pending")

\* C3: a cancelled task is excluded from every later sweep: no sweep executes
\* the body of a task whose state is cancelled.
C3_CancelledExcludedFromSweep == sweptCancelled = {}

\* C13: task state transitions are monotone under schedule, start, cancel,
\* retry and sweep calls: a task that has left pending never returns to
\* pending, a completed or cancelled task never changes state again, and a
\* failed task changes state only through a retry call for it.
C13_MonotoneTransitions ==
  [][\A id \in TaskIds :
       LET before == scheduledReminders[id].state
           after == scheduledReminders'[id].state
       IN /\ before \notin {"none", "pending"} => after # "pending"
          /\ before \in {"completed", "cancelled"} => after = before
          /\ (before = "failed" /\ after # "failed")
               => (taskCall'.op = "retry" /\ taskCall'.id = id)]_vars

\* C14: a sweep processes every stored task that is pending with dueAt <= now:
\* it ends completed when its body returned and failed with the body's error
\* message recorded when its body threw, whatever happened to the other due
\* tasks of the same sweep.
C14_SweepProcessesEveryDue ==
  [][taskCall'.op = "sweep" =>
       \A id \in TaskIds :
         (/\ scheduledReminders[id].state = "pending"
          /\ workflowStore[id] # NoEntry
          /\ workflowStore[id].scheduledTime <= now)
         => IF id \in taskCall'.returned
            THEN scheduledReminders'[id].state = "completed"
            ELSE /\ scheduledReminders'[id].state = "failed"
                 /\ scheduledReminders'[id].error = BodyError(workflowStore[id].workflowName)]_vars

\* A sweep in which a pending due task's body threw and a later pending due
\* task's body returned.
C14_Witness ==
  /\ taskCall.op = "sweep"
  /\ \E a, b \in taskCall.duePending :
       /\ a < b
       /\ a \notin taskCall.returned /\ scheduledReminders[a].state = "failed"
       /\ b \in taskCall.returned /\ scheduledReminders[b].state = "completed"

\* The alarm time the remaining pending tasks call for.
RemainingAlarm == IF PendingIds = {} THEN NoAlarm ELSE EarliestPendingDue

\* C15: when a sweep returns, the wake-up alarm is armed at the earliest dueAt
\* among the tasks still pending, and no alarm is armed if none is pending.
C15_AlarmRearmedAfterSweep ==
  [][taskCall'.op = "sweep" => alarm' = RemainingAlarm']_vars

\* C16: cancel succeeds only for a task in pending or running; for a task in
\* completed, failed or cancelled it fails with a state error and leaves the
\* task's state and completion time as they were.
C16_CancelOnlyPendingOrRunning ==
  [][taskCall'.op = "cancel" =>
       LET before == scheduledReminders[taskCall'.id]
           after == scheduledReminders'[taskCall'.id]
       IN /\ taskResult' = "ok" => before.state \in {"pending", "running"}
          /\ before.state \in {"completed", "failed", "cancelled"}
               => /\ taskResult' = "state-error"
                  /\ after.state = before.state
                  /\ after.completedAt = before.completedAt]_vars

\* C17: retry is accepted only for a task in failed and then always runs: the
\* stored entry is there, the body of the stored workflow name is re-executed
\* and the task ends completed if it returned and failed with the new error if
\* it threw; for a task in any other state retry fails with an error and
\* changes nothing.
C17_RetryOnlyFailed ==
  [][taskCall'.op = "retry" =>
       LET id == taskCall'.id
           before == scheduledReminders[id]
           after == scheduledReminders'[id]
       IN IF before.state = "failed"
          THEN /\ workflowStore[id] # NoEntry
               /\ taskResult' = "ok"
               /\ IF id \in taskCall'.returned
                  THEN after.state = "completed" /\ after.error = ""
                  ELSE /\ after.state = "failed"
                       /\ after.error = BodyError(workflowStore[id].workflowName)
          ELSE /\ taskResult' \in {"not-found", "state-error"}
               /\ UNCHANGED <<scheduledReminders, persistedReminders, workflowStore, alarm>>]_vars

\* A retry of a failed task whose re-executed body returned.
C17_Witness ==
  /\ taskCall.op = "retry"
  /\ taskCall.id \in taskCall.returned
  /\ taskResult = "ok"
  /\ scheduledReminders[taskCall.id].state = "completed"

(***************************************************************************)
(* Claims about dispatch and connection bookkeeping                        *)
(***************************************************************************)
\* The handlers whose canHandle accepts the text.
Accepting(text) == {k \in 1..Len(Handlers) : CanHandle(Handlers[k], text)}

FirstAccepting(text) == CHOOSE k \in Accepting(text) : \A j \in Accepting(text) : k <= j

\* The calls of a first-match dispatch that ends at handler k.
FirstMatchCalls(k) ==
  [j \in 1..(k + 1) |->
     IF j <= k THEN Call(Handlers[j], "canHandle") ELSE Call(Handlers[k], "handle")]

\* C4: for every inbound frame that parses to a Message, canHandle is called
\* on the handlers in registration order up to the first that accepts, handle
\* is called on that handler only, no later handler is called at all, and the
\* single outbound frame is the message frame carrying that handler's result.
C4_FirstMatchWins ==
  (lastEvent.op = "message" /\ lastEvent.parsed) =>
    /\ Accepting(lastEvent.content) # {}
    /\ calls = FirstMatchCalls(FirstAccepting(lastEvent.content))
    /\ Len(outbound) = 1
    /\ outbound[1].type = "message"
    /\ outbound[1].to = lastEvent.ws
    /\ outbound[1].role = "assistant"

\* C4 witness: the command matcher handled a message that the conversational
\* fallback, registered after it, would have accepted too.
C4_Witness ==
  /\ lastEvent.op = "message"
  /\ lastEvent.parsed
  /\ calls = <<Call("command", "canHandle"), Call("command", "handle")>>
  /\ CanHandle("chat", lastEvent.content)

ProcessedByChat ==
  \E k \in 1..Len(calls) :
    calls[k].handler = "chat" /\ calls[k].method \in {"handle", "handleStream"}

\* C5: a message the command matcher recognizes is never processed by the
\* conversational fallback, on the normal and on the streaming dispatch path.
C5_CommandNeverReachesFallback ==
  (lastEvent.op \in {"message", "stream"} /\ lastEvent.parsed
     /\ CanHandle("command", lastEvent.content)) => ~ProcessedByChat

\* C6 as stated: an exception raised while handling an inbound frame is
\* answered with one assistant message that carries an apology with the error
\* detail appended, and the connection stays open.
C6_ApologyWithDetail ==
  (lastEvent.op = "message" /\ lastEvent.raised # "") =>
    /\ Len(outbound) = 1
    /\ outbound[1].type = "message"
    /\ outbound[1].role = "assistant"
    /\ outbound[1].detail = lastEvent.raised
    /\ wsState[lastEvent.ws] = "open"

\* C6 amended: an exception raised while handling an inbound frame is answered
\* with one assistant message carrying an apology: the command matcher's with
\* the error detail appended, the conversational fallback's fixed one without
\* the detail; the connection stays open and bound, and the actor accepts the
\* next inbound frame on it.
C6_ApologyPerHandler ==
  (lastEvent.op = "message" /\ lastEvent.raised # "") =>
    /\ Len(outbound) = 1
    /\ outbound[1].type = "message"
    /\ outbound[1].role = "assistant"
    /\ outbound[1].to = lastEvent.ws
    /\ calls[Len(calls)].method = "handle"
    /\ calls[Len(calls)].handler = "command" =>
         /\ outbound[1].content = "Sorry, I couldn't execute that command: "
         /\ outbound[1].detail = lastEvent.raised
    /\ calls[Len(calls)].handler = "chat" =>
         /\ outbound[1].content = "Sorry, I encountered an error processing your message."
         /\ outbound[1].detail = ""
    /\ wsState[lastEvent.ws] = "open"
    /\ wsToUserId[lastEvent.ws] = lastEvent.userId
    /\ turn < MaxTurns =>
         ENABLED WebSocketMessage(lastEvent.ws, [kind |-> "envelope", content |-> T_chat], TRUE)

\* C6 witness: the command matcher raised an error while executing a command.
C6_Witness ==
  /\ lastEvent.op = "message"
  /\ lastEvent.raised # ""
  /\ calls[Len(calls)] = Call("command", "handle")

\* C10: after a close or an error notification for a transport the actor
\* holds no binding for it: no identity maps to it in either table.
C10_UnboundAfterCloseOrError ==
  lastEvent.op \in {"close", "error"} =>
    /\ wsToUserId[lastEvent.ws] = NoUser
    /\ \A u \in UserKeys : SendToUserTarget(u) # lastEvent.ws
    /\ ~IsUserConnected(lastEvent.userId)

\* The open transports whose inbound frames the actor dispatches as userId.
DispatchingConnections(userId) ==
  {ws \in Transports : wsState[ws] = "open" /\ wsToUserId[ws] = userId}

\* C11: at any time the actor dispatches inbound frames from at most one open
\* connection per identity, also after a second accept for an identity whose
\* earlier connection is still open.
C11_OneOpenConnectionPerIdentity ==
  \A u \in Identities : Cardinality(DispatchingConnections(u)) <= 1

\* The turns of userId that the collaborator currently holds suspended.
InFlight(userId) ==
  {n \in TurnIds : inflight[n].state = "awaiting" /\ inflight[n].userId = userId}

\* The messages of the completed turns of userId among turns 1..n, in turn order.
RECURSIVE CompletedTurnMessages(_, _)
CompletedTurnMessages(userId, n) ==
  IF n = 0 THEN <<>>
  ELSE CompletedTurnMessages(userId, n - 1) \o
         (IF inflight[n].state = "completed" /\ inflight[n].userId = userId
          THEN <<ChatMessage("user", n, T_chat), ChatMessage("assistant", n, LlmResponse)>>
          ELSE <<>>)

\* C12: turns of one identity never interleave: no identity has two turns in
\* flight at once, and the persisted context of an identity holds the user
\* and assistant messages of all its completed turns in turn order.
C12_TurnsNeverInterleave ==
  \A u \in UserKeys :
    /\ Cardinality(InFlight(u)) <= 1
    /\ contextStore[u].messages
         = LastN(CompletedTurnMessages(u, MaxTurns), MaxContextMessages)

\* C18: a conversational turn is all-or-nothing on the persisted context.
\* The collaborator is given at most the last 10 context messages, the user
\* message included.  When it answers, the persisted context gains the user
\* message followed by the assistant message (the oldest messages making room
\* beyond the cap) and the answer is the one outbound message frame; when it
\* fails, the one outbound frame is the fixed apology as an assistant message
\* and the persisted context holds the messages it held before.
C18_ChatTurnAllOrNothing ==
  [][(/\ turn' = turn + 1
      /\ lastEvent'.op = "message"
      /\ calls' # <<>>
      /\ calls'[Len(calls')] = Call("chat", "handle"))
     => LET u == lastEvent'.userId
            before == contextStore[u].messages
            after == contextStore'[u].messages
            user == ChatMessage("user", turn', lastEvent'.content)
            reply == ChatMessage("assistant", turn', LlmResponse)
        IN /\ Len(llmGiven') <= 10
           /\ llmGiven' = LastN(Append(before, user), 10)
           /\ IF lastEvent'.raised = ""
              THEN /\ after = LastN(before \o <<user, reply>>, MaxContextMessages)
                   /\ outbound' = <<Frame(lastEvent'.ws, "message", "assistant",
                                          "llm-response", "")>>
              ELSE /\ after = before
                   /\ outbound' = <<Frame(lastEvent'.ws, "message", "assistant",
                                          "Sorry, I encountered an error processing your message.",
                                          "")>>]_vars

\* A successful conversational turn on a full context: the collaborator was
\* given 10 messages and the context holds 20 ending with the turn's pair.
C18_Witness ==
  /\ lastEvent.op = "message"
  /\ lastEvent.raised = ""
  /\ calls # <<>>
  /\ calls[Len(calls)] = Call("chat", "handle")
  /\ Len(llmGiven) = 10
  /\ LET messages == contextStore[lastEvent.userId].messages
     IN /\ Len(messages) = MaxContextMessages
        /\ messages[MaxContextMessages - 1] = ChatMessage("user", turn, lastEvent.content)
        /\ messages[MaxContextMessages] = ChatMessage("assistant", turn, LlmResponse)
        /\ messages[1].turn < 0

\* The most recent min(n, cap) of n appended items, oldest first; the k-th
\* appended item is k.
MostRecent(n, cap) == [i \in 1..Min(n, cap) |-> n - Min(n, cap) + i]

\* C19: after any number of appends the conversation history holds at most 20
\* messages and exactly the most recent min(n, 20) appended ones in their
\* original order, and the meal history holds at most 30 entries and exactly
\* the most recent min(n, 30) appended ones in their original order.
C19_BoundedFifoAppend ==
  /\ Len(conversationHistory) <= 20
  /\ conversationHistory = MostRecent(appendedMessages, 20)
  /\ Len(mealHistory) <= 30
  /\ mealHistory = MostRecent(appendedMeals, 30)

\* Both histories after the largest number of appends, each past its cap.
C19_Witness ==
  /\ appendedMessages = MaxAppends
  /\ appendedMeals = MaxAppends
  /\ appendedMessages > MaxContextMessages
  /\ appendedMeals > MaxMealHistory
  /\ conversationHistory[1] = MaxAppends - MaxContextMessages + 1
  /\ mealHistory[Len(mealHistory)] = MaxAppends

\* fullResponse as the concatenation of the texts of frames 2..k of a turn.
RECURSIVE ChunksUpTo(_, _)
ChunksUpTo(frames, k) == IF k < 2 THEN <<>> ELSE ChunksUpTo(frames, k - 1) \o frames[k].text

\* The messages of turn n in a conversation history.
MessagesOfTurn(messages, n) == SelectSeq(messages, LAMBDA m : m.turn = n)

\* C20: the outbound frames of a streamed turn are one stream_start, then the
\* stream_chunk frames in the order the handler yields them, then one
\* stream_end, and nothing else; the stream_end is there also when the
\* collaborator's stream fails partway (the handler then yields its apology as
\* the last chunk); and the context gains the turn's assistant message, holding
\* the concatenation of all chunks, only when the stream completed: after a
\* failed stream the context holds no message of the turn.
C20_StreamFraming ==
  (/\ lastEvent.op = "stream"
   /\ calls # <<>>
   /\ calls[Len(calls)] = Call("chat", "handleStream"))
  => LET n == Len(outbound)
         yielded == IF lastEvent.raised = "" THEN n - 2 ELSE n - 3
         messages == contextStore[lastEvent.userId].messages
     IN /\ n >= 2
        /\ outbound[1].type = "stream_start"
        /\ outbound[n].type = "stream_end"
        /\ \A i \in 2..(n - 1) : outbound[i].type = "stream_chunk"
        /\ \A i \in 1..n : outbound[i].to = lastEvent.ws
        /\ yielded >= 0
        /\ \A k \in 1..yielded : outbound[k + 1].text = ChunkText(k)
        /\ IF lastEvent.raised = ""
           THEN MessagesOfTurn(messages, turn)
                  = <<ChatMessage("user", turn, lastEvent.content),
                      ChatMessage("assistant", turn, ChunksUpTo(outbound, n - 1))>>
           ELSE /\ outbound[n - 1].content = "Sorry, I encountered an error: "
                /\ outbound[n - 1].detail = lastEvent.raised
                /\ MessagesOfTurn(messages, turn) = <<>>

\* A streamed turn of two chunks that completed: four frames, and the persisted
\* assistant message holds both chunks in order.
C20_Witness ==
  /\ lastEvent.op = "stream"
  /\ lastEvent.raised = ""
  /\ calls # <<>>
  /\ calls[Len(calls)] = Call("chat", "handleStream")
  /\ Len(outbound) = 4
  /\ LET messages == contextStore[lastEvent.userId].messages
     IN /\ messages # <<>>
        /\ messages[Len(messages)]
             = ChatMessage("assistant", turn, ChunkText(1) \o ChunkText(2))

(***************************************************************************)
(* Claims about the connection supervisor                                  *)
(***************************************************************************)
LiveSockets == {s \in SocketIds : readyState[s] \in {"CONNECTING", "OPEN"}}
ClosedInStep == {s \in SocketIds : readyState[s] # "CLOSED" /\ readyState'[s] = "CLOSED"}
CreatedInStep == {s \in SocketIds : readyState[s] = "none" /\ readyState'[s] # "none"}
ArmedInStep == {t \in TimerIds : timers[t].state = "none" /\ timers'[t].state = "pending"}
PendingTimers == {t \in TimerIds : timers[t].state = "pending"}
BackoffTable == <<2000, 4000, 8000, 16000, 30000>>

C8_AtMostOneLiveSocket == Cardinality(LiveSockets) <= 1

\* C9: the close event of a socket that a cleanup has closed arms no reconnect
\* timer and creates no socket, whenever it is delivered; and a timer that was
\* pending before a cleanup does not fire after it.
C9_NoRetryAfterTeardown ==
  /\ [][(ClosedInStep \cap tornDown # {}) =>
          (ArmedInStep = {} /\ CreatedInStep = {})]_vars
  /\ [][~mounted' /\ mounted => PendingTimers' = {}]_vars

\* C21: at most one reconnect timer of the supervisor is outstanding at any
\* time, and an outstanding timer is the one reconnectTimeoutRef tracks.
C21_AtMostOneReconnectTimer ==
  /\ Cardinality(PendingTimers) <= 1
  /\ \A t \in PendingTimers : reconnectTimeoutRef = t

\* C22: a send call transmits nothing and returns false whenever the
\* supervisor has no open connection at the call, and transmits exactly one
\* {content, timestamp} frame on an open socket and returns true whenever it
\* has one.
C22_SendOnlyWhenOpen ==
  lastSend.called =>
    IF lastSend.openSockets # {}
    THEN /\ lastSend.returned
         /\ lastSend.frames = <<[content |-> lastSend.content, timestamp |-> "Date.now"]>>
         /\ lastSend.socket \in lastSend.openSockets
    ELSE ~lastSend.returned /\ lastSend.frames = <<>>

\* The Messages onMessage was given for message event k.
DeliveredFor(k) == SelectSeq(delivered, LAMBDA m : m.frame = k)

\* C23: every message event whose data parses as an envelope with a
\* recognized type is converted to one Message and handed to the onMessage
\* callback exactly once; data that does not parse is handed to nobody, and
\* the events after it are still handled.
C23_RecognizedFramesDelivered ==
  \A k \in 1..Len(received) :
    IF received[k].parses /\ received[k].type \in EnvelopeTypes
    THEN Len(DeliveredFor(k)) = 1
    ELSE ~received[k].parses => DeliveredFor(k) = <<>>

\* The content canHandle and parseCommand work on.
MatcherContent == ToLowerCase(Trim(matcherText))

\* The messages the claim names as commands.
NamedAsCommand(content) ==
  \/ StartsWith(content, S_slash)
  \/ StartsWith(content, S_analyze)
  \/ Includes(content, S_recommend)
  \/ Includes(content, S_suggest)
  \/ StartsWith(content, S_set \o S_space \o S_goal)
  \/ Includes(content, S_show \o S_space \o S_history)
  \/ Includes(content, S_meal \o S_space \o S_history)

\* C24: every message that starts with the command prefix, starts with
\* "analyze", contains "recommend" or "suggest", starts with "set goal", or
\* contains "show history" or "meal history" is accepted by the command
\* matcher's canHandle and dispatched to the command matcher.
C24_NamedCommandsRecognized ==
  (matcherResult.done /\ NamedAsCommand(MatcherContent))
    => (matcherResult.canHandle /\ matcherResult.handler = "command")

\* C30: a message canHandle accepts through a natural-language pattern (not
\* the prefix) is parsed to a command by parseCommand, so it is never answered
\* with "I didn't understand that command".
C30_RecognizerAndParserAgree ==
  (/\ matcherResult.done
   /\ matcherResult.canHandle
   /\ ~StartsWith(MatcherContent, S_slash))
    => (matcherResult.command # "none" /\ matcherResult.understood)

\* C25: every inbound frame is parsed to a user Message and dispatched through
\* the handler chain; a frame that is not an envelope with a string content
\* (raw text, or JSON without a usable content field) is not rejected.
C25_EveryFrameParsedAndDispatched ==
  (lastEvent.op = "message" /\ lastEvent.kind \in {"raw", "json"}) =>
    /\ lastEvent.parsed
    /\ calls # <<>>
    /\ calls[1] = Call("command", "canHandle")
    /\ \A k \in 1..Len(outbound) : outbound[k].content # "Invalid message format"

\* A task a sweep has already executed since it was scheduled: failed is
\* recorded only by a sweep whose body threw, or by a retry of such a task.
ExecutedBySweep(id) == scheduledReminders[id].state = "failed"

\* C26: a sweep never executes the body of a task that an earlier sweep has
\* executed; only an explicit retry executes it again.
C26_SweepExecutesAtMostOnce ==
  [][taskCall'.op = "sweep" =>
       \A id \in DueEntries(workflowStore, now) : ~ExecutedBySweep(id)]_vars

\* C29: running is transient: when startWorkflow has returned or thrown, and
\* when a retry that re-executed the body has returned, the task is in
\* completed or failed.
C29_RunningIsTransient ==
  (\/ taskCall.op = "start"
   \/ taskCall.op = "retry" /\ taskResult = "ok")
    => scheduledReminders[taskCall.id].state \in {"completed", "failed"}

\* C27: every inbound frame is dispatched, and the records it touches are
\* keyed, under the identity its transport was accepted with, never under
\* another or the placeholder identity, also after a restart of the actor.
C27_DispatchedUnderAcceptedIdentity ==
  (lastEvent.op \in {"message", "stream"} /\ lastEvent.parsed) =>
    /\ lastEvent.userId = acceptedAs[lastEvent.ws]
    /\ lastEvent.userId # UnknownUser

\* C28: after a restart every operation on the task table finds the table as
\* last persisted, whenever the reload completes; no task leaves the persisted
\* table; and the completion of the reload changes no task state recorded
\* after the restart.
C28_TableSurvivesRestart ==
  [][/\ taskCall'.op \in {"cancel", "retry", "sweep"} => scheduledReminders = persistedReminders
     /\ \A id \in TaskIds :
          persistedReminders[id] # NoStatus => persistedReminders'[id] # NoStatus
     /\ taskCall'.op = "reload" =>
          \A id \in TaskIds :
            scheduledReminders[id] # NoStatus => scheduledReminders'[id] = scheduledReminders[id]]_vars

====
